---- MODULE Spec2Model ----
(***************************************************************************)
(* imgcat2: the multi-frame animation compositor of the GIF and APNG       *)
(* decoders (decode_gif_animated, decode_png_animated) and the frame-count *)
(* limits of the animated decoders.                                        *)
(*                                                                         *)
(* Image buffers live in a modelled heap: the accumulator, the backup      *)
(* ("previous") and every output frame are pointers into it, so aliasing,  *)
(* leaks and releases are visible.                                         *)
(***************************************************************************)
EXTENDS Integers, Sequences, FiniteSets, TLC

\* ------------------------------------------------------------------ bounds

\* The largest declared frame count whose frames are drawn freely.
MaxFrames == 2
\* The logical screen (canvas) of the animations explored.
CanvasW == 2
CanvasH == 2
\* The largest canvas the renderer is given pixel by pixel: widths 1..MaxImgW,
\* heights 1..MaxImgH.
MaxImgW == 2
MaxImgH == 5
\* The small dimensions image_create is asked for: 0..MaxDim.
MaxDim == 2
\* The longest animation played, and the frame displays followed per run.
MaxAnimFrames == 3
MaxShown == 5

\* ------------------------------------------------------- program constants

MAX_GIF_FRAMES == 200
MAX_PNG_FRAMES == 200
MAX_JXL_FRAMES == 200
MAX_LINE_BUFFER_SIZE == 51200
MAX_TERMINAL_WIDTH == 1000
RESIZE_FACTOR_X == 1
RESIZE_FACTOR_Y == 2
IMAGE_MAX_DIMENSION == 16384
IMAGE_MAX_PIXELS == 100000000

\* ------------------------------------------------------------ fixed widths

U8(v) == v % 256
U16(v) == v % 65536

\* ------------------------------------------------------------------ pixels

NULL == 0

Transparent == <<0, 0, 0, 0>>
Red == <<255, 0, 0, 255>>
Blue == <<0, 0, 255, 255>>
Green == <<0, 255, 0, 255>>
HalfRed == <<255, 0, 0, 128>>

\* The content of a buffer that does not exist (a NULL or released image).
NoPixels == <<>>

\* image_create: a zero-initialised (transparent black) pixel buffer.
BlankPixels(w, h) == [i \in 1..(w * h) |-> Transparent]

\* Offset calculation of image_t: pixels[(y * width + x) * 4 + channel].
PixelIndex(x, y, w) == y * w + x + 1

\* The frame coordinates (x, y) of the two nested loops over a frame.
FrameCoords(fw, fh) == (0..(fw - 1)) \X (0..(fh - 1))

\* image_set_pixel: writes only inside the image, silently refuses outside.
image_set_pixel(px, w, h, x, y, p) ==
    IF x >= w \/ y >= h THEN px ELSE [px EXCEPT ![PixelIndex(x, y, w)] = p]

\* ---------------------------------------------------- APNG frame compositing

\* OverBlend with the two products narrowed to uint16_t, as the casts in the
\* source suggest, instead of being computed in int.
OverBlendWraps16(src, dst) ==
    LET src_a == src[4]
        dst_a == dst[4]
        out_a == U16(src_a + ((dst_a * (255 - src_a)) \div 255))
        chan(c) == U8((U16(src[c] * src_a) + U16(dst[c] * dst_a * (255 - src_a)) \div 255) \div out_a)
    IN  IF out_a > 0 THEN <<chan(1), chan(2), chan(3), U8(out_a)>> ELSE dst

\* BLEND_OP_OVER of apng_composite_frame: the operands are promoted to int, the
\* output alpha is a uint16_t, each stored channel is narrowed to uint8_t.
OverBlend(src, dst) ==
    LET src_a == src[4]
        dst_a == dst[4]
        out_a == U16(src_a + ((dst_a * (255 - src_a)) \div 255))
        chan(c) == U8((src[c] * src_a + (dst[c] * dst_a * (255 - src_a)) \div 255) \div out_a)
    IN  IF out_a > 0 THEN <<chan(1), chan(2), chan(3), U8(out_a)>> ELSE dst

\* BlendPixel whose Source mode leaves the destination under a fully
\* transparent source pixel.
BlendPixelSkipsTransparent(blend_op, src, dst) ==
    IF blend_op = "Source" THEN (IF src[4] = 0 THEN dst ELSE src) ELSE OverBlend(src, dst)

\* The pixel apng_composite_frame stores for one source pixel.
BlendPixel(blend_op, src, dst) ==
    IF blend_op = "Source" THEN src ELSE OverBlend(src, dst)

\* apng_composite_frame: the two nested loops over the frame, k source pixels
\* already processed in row-major order.
RECURSIVE ApngLoop(_, _, _)
ApngLoop(acc, f, k) ==
    IF k >= f.width * f.height THEN acc
    ELSE LET x == k % f.width
             y == k \div f.width
             canvas_x == (f.x_offset + x)
             canvas_y == (f.y_offset + y)
             canvas_idx == canvas_y * CanvasW + canvas_x + 1
             src == f.pixels[PixelIndex(x, y, f.width)]
         IN  ApngLoop(IF canvas_x >= CanvasW \/ canvas_y >= CanvasH
                        THEN acc
                        ELSE [acc EXCEPT ![canvas_idx] = BlendPixel(f.blend_op, src, acc[canvas_idx])],
                      f, k + 1)

apng_composite_frame(acc, f) == ApngLoop(acc, f, 0)

\* The validation of decode_png_animated. The offsets and sizes explored are
\* small, so the uint32_t sums are exact.
PngFrameExceedsCanvas(f) ==
    \/ (f.x_offset + f.width) > CanvasW
    \/ (f.y_offset + f.height) > CanvasH

\* ----------------------------------------------------- GIF frame compositing

\* A NULL ColorMapObject pointer.
NoColorMap == <<>>

\* gif_index_to_rgba: colour map lookup; an invalid index is transparent black.
gif_index_to_rgba(color_map, index, transparent_color) ==
    IF color_map = NoColorMap \/ index < 0 \/ index >= Len(color_map)
      THEN <<0, 0, 0, 0>>
      ELSE LET color == color_map[index + 1]
           IN  <<color[1], color[2], color[3], IF index = transparent_color THEN 0 ELSE 255>>

\* GifPutPixel without the transparent-index and alpha tests: every raster
\* pixel inside the canvas is stored.
GifPutPixelNoSkip(acc, f, x, y) ==
    LET index == f.raster[PixelIndex(x, y, f.width)]
        rgba == gif_index_to_rgba(f.color_map, index, f.transparent_color)
    IN  image_set_pixel(acc, CanvasW, CanvasH, f.x_offset + x, f.y_offset + y, rgba)

\* What frame_composition does with one raster pixel: the new accumulator.
GifPutPixel(acc, f, x, y) ==
    LET index == f.raster[PixelIndex(x, y, f.width)]
        rgba == gif_index_to_rgba(f.color_map, index, f.transparent_color)
        canvas_x == (f.x_offset + x)
        canvas_y == (f.y_offset + y)
    IN  IF index = f.transparent_color THEN acc
        ELSE IF rgba[4] >= 128 /\ canvas_x < CanvasW /\ canvas_y < CanvasH
          THEN image_set_pixel(acc, CanvasW, CanvasH, canvas_x, canvas_y, rgba)
          ELSE acc

RECURSIVE GifLoop(_, _, _)
GifLoop(acc, f, k) ==
    IF k >= f.width * f.height THEN acc
    ELSE GifLoop(GifPutPixel(acc, f, k % f.width, k \div f.width), f, k + 1)

frame_composition(acc, f) == GifLoop(acc, f, 0)

\* ------------------------------------------------------------------ disposal

\* ClearLoop clearing the whole canvas instead of the frame area.
ClearWholeCanvas(acc, f, k) == BlankPixels(CanvasW, CanvasH)

\* DISPOSE_BACKGROUND / PNG_DISPOSE_OP_BACKGROUND: the loop that clears the
\* frame area to transparent black, k pixels already cleared.
RECURSIVE ClearLoop(_, _, _)
ClearLoop(acc, f, k) ==
    IF k >= f.width * f.height THEN acc
    ELSE LET canvas_x == (f.x_offset + (k % f.width))
             canvas_y == (f.y_offset + (k \div f.width))
         IN  ClearLoop(IF canvas_x < CanvasW /\ canvas_y < CanvasH
                         THEN image_set_pixel(acc, CanvasW, CanvasH, canvas_x, canvas_y, <<0, 0, 0, 0>>)
                         ELSE acc,
                       f, k + 1)

\* ApplyDisposal whose Previous case restores nothing.
ApplyDisposalNoRestore(acc, f, backup) ==
    IF f.dispose_op = "Background" THEN ClearLoop(acc, f, 0) ELSE acc

\* ApplyDisposal whose None case clears the frame area like Background.
ApplyDisposalNoneClears(acc, f, backup) ==
    IF f.dispose_op = "Previous" /\ backup # NoPixels THEN backup ELSE ClearLoop(acc, f, 0)

\* The switch on the disposal method: the accumulator left for the next frame.
\* backup is the content of "previous" (NoPixels while previous is NULL).
ApplyDisposal(acc, f, backup) ==
    CASE f.dispose_op = "Background" -> ClearLoop(acc, f, 0)
      [] f.dispose_op = "Previous" -> IF backup # NoPixels THEN backup ELSE acc
      [] OTHER -> acc

\* ------------------------------------------------------------ frame inputs

\* Whether a canvas position lies in the frame's declared region.
InRegion(f, cx, cy) ==
    /\ f.x_offset <= cx /\ cx < f.x_offset + f.width
    /\ f.y_offset <= cy /\ cy < f.y_offset + f.height

RegionFits(f) ==
    f.x_offset + f.width <= CanvasW /\ f.y_offset + f.height <= CanvasH

FullRegion == [x |-> 0, y |-> 0, w |-> CanvasW, h |-> CanvasH]
\* A one-row strip right of the first column.
SubRegion == [x |-> 1, y |-> 0, w |-> CanvasW - 1, h |-> 1]
\* A canvas-sized region shifted by one: it sticks out right and below.
ShiftedRegion == [x |-> 1, y |-> 1, w |-> CanvasW, h |-> CanvasH]
Regions == {FullRegion, SubRegion, ShiftedRegion}

DisposeOps == {"None", "Background", "Previous"}

\* The RGBA pixel libpng delivers at (x, y) of a frame painted with pattern p.
PngPatternPixel(p, x, y) ==
    CASE p = "blue" -> Blue
      [] p = "red" -> Red
      [] p = "half" -> HalfRed
      [] OTHER -> IF (x + y) % 2 = 0 THEN Green ELSE Transparent

\* <<pattern, blend_op>> of the APNG frames explored.
PngPaints ==
    {<<"blue", "Source">>, <<"red", "Source">>, <<"half", "Over">>,
     <<"mix", "Source">>, <<"mix", "Over">>}

\* The colour index at (x, y) of a GIF raster painted with pattern p.
GifPatternIndex(p, x, y) ==
    CASE p = "one" -> 1
      [] p = "oor" -> 2
      [] OTHER -> (x + y) % 2

\* The colour map of the GIF frames explored: index 0 red, index 1 blue.
GifColorMap == <<<<255, 0, 0>>, <<0, 0, 255>>>>

\* <<pattern, transparent_color>> of the GIF frames explored (-1: none).
GifPaints == {<<"mix", -1>>, <<"mix", 0>>, <<"oor", -1>>}

NoFrame == [kind |-> "none"]

PngFrame(r, paint, d) ==
    [kind |-> "png", x_offset |-> r.x, y_offset |-> r.y, width |-> r.w, height |-> r.h,
     pixels |-> [i \in 1..(r.w * r.h) |-> PngPatternPixel(paint[1], (i - 1) % r.w, (i - 1) \div r.w)],
     blend_op |-> paint[2], dispose_op |-> d]

GifFrame(r, paint, d, cm) ==
    [kind |-> "gif", x_offset |-> r.x, y_offset |-> r.y, width |-> r.w, height |-> r.h,
     raster |-> [i \in 1..(r.w * r.h) |-> GifPatternIndex(paint[1], (i - 1) % r.w, (i - 1) \div r.w)],
     color_map |-> cm, transparent_color |-> paint[2], dispose_op |-> d]

\* The frames a file may hold at one position. A file declaring more than
\* MaxFrames frames repeats one plain full-canvas frame.
PngFrames(n) ==
    IF n > MaxFrames THEN {PngFrame(FullRegion, <<"blue", "Source">>, "None")}
    ELSE {PngFrame(r, p, d) : r \in Regions, p \in PngPaints, d \in DisposeOps}

GifFrames(n) ==
    IF n > MaxFrames THEN {GifFrame(FullRegion, <<"one", -1>>, "None", GifColorMap)}
    ELSE {GifFrame(r, p, d, GifColorMap) : r \in Regions, p \in GifPaints, d \in DisposeOps}
         \cup {GifFrame(FullRegion, <<"one", -1>>, "None", NoColorMap)}


\* ------------------------------------------------------------------- state

VARIABLES
    fmt,            \* the container format being decoded: "gif", "png" or "jxl"
    pc,             \* the decoder's position
    declared,       \* frames the file declares (ImageCount, acTL num_frames, JXL frames)
    num_frames,     \* the local num_frames, after the cap
    frame_idx,      \* the loop variable frame_idx
    heap,           \* image buffers: id |-> [px, live]
    accumulator,    \* pointer to the accumulator canvas (NULL: none)
    previous,       \* pointer to the DISPOSE_PREVIOUS backup (NULL: none)
    frames,         \* the frames array: one pointer per frame (NULL: not yet)
    frames_arr,     \* the frames array itself: "null", "live" or "freed"
    row_pointers,   \* APNG per-frame temporary: "null", "live" or "freed"
    frame_buffer,   \* APNG per-frame temporary: "null", "live" or "freed"
    reader,         \* the library handle (GifFileType, png_struct, JxlDecoder)
    cur,            \* the frame update being processed
    hist,           \* per processed frame: what it was and the canvas around it
    counted,        \* jxl_get_info's local frame_count
    warned,         \* a truncation warning was printed on stderr
    err,            \* the error printed on stderr before a NULL return ("none": none)
    result,         \* "none" while decoding, then "frames" or "null"
    frame_count,    \* the output *frame_count
    \* ---- the ANSI renderer (escape.c) and what leads to it
    mode,           \* what is being run: "none", "line", "frame" or "pipeline"
    rpc,            \* the renderer's position
    term,           \* the terminal size reported by terminal_get_size
    opts,           \* the cli_options_t fields that size the canvas
    img,            \* the canvas handed to the renderer: width, height, content
    y_top,          \* generate_line_ansi's argument y_top
    line_buffer,    \* what has been written to the line buffer
    line_ret,       \* generate_line_ansi's return: "none", "buffer" or "null"
    row_y,          \* generate_frame_ansi's loop variable y
    line_index,     \* generate_frame_ansi's local line_index
    num_lines,      \* generate_frame_ansi's local num_lines
    lines,          \* the lines array: the line stored in each slot
    line_count,     \* the output *line_count (-1: not written)
    frame_ret,      \* generate_frame_ansi's return: "none", "lines" or "null"
    fail,           \* why the renderer returned NULL ("none": it did not)
    \* ---- image_create (image.c)
    ipc,            \* "call" before image_create runs, "done" after, "idle"
    req_width,      \* the argument width, a uint32_t as <<high 16 bits, low 16 bits>>
    req_height,     \* the argument height, likewise
    created,        \* image_create's return: "none", "image" or "null"
    byte_count,     \* image_calculate_size's *out_size (-1: not written)
    \* ---- the animation player (render_animated, pipeline.c)
    ppc,                \* the player's position
    anim_count,         \* the argument frame_count
    play_opts,          \* the cli_options_t fields the player and the scaler read
    play_frames,        \* the scaled frames handed over: width and height of each
    animation_running,  \* the flag the SIGINT handler clears
    handler,            \* signal_handler is installed for SIGINT
    flag_writes,        \* the functions that have stored to animation_running
    gen_idx,            \* the pre-generation loop variable i
    all_lines,          \* all_lines: per generated frame, "live" or "freed"
    all_line_counts,    \* all_line_counts: the line count of each generated frame
    arrays,             \* the two arrays themselves: "null", "live" or "freed"
    frame_height,       \* the local frame_height
    play_idx,           \* the loop variable frame_idx
    first_iteration,    \* the local first_iteration
    cursor,             \* the terminal's cursor: "shown" or "hidden"
    echo,               \* the terminal's input echo: "on" or "off"
    echo_state,         \* the saved termios: "none", "saved", "null" or "freed"
    attrs_reset,        \* ansi_reset was the last thing done to the attributes
    displayed,          \* the frames whose display has begun, in order
    ups,                \* ansi_cursor_up's argument at each display (0: not called)
    completed,          \* how many frame displays ran to their end
    checked,            \* the frame for which the flag was last read as set
    cancel_at,          \* displays begun when signal_handler ran (-1: it did not)
    written,            \* render_static_frame's loop variable i
    play_ret,           \* the player's return: "none", "0" or "-1"
    \* ---- one BLEND_OP_OVER pixel (apng_composite_frame, decoder_png.c)
    bpc,            \* "call" before the pixel is blended, "done" after, "idle"
    over_in,        \* the operands: [src_c, src_a, dst_c, dst_a]
    over_out,       \* the results: the channel before and after narrowing, out_a
    \* ---- the APNG frame region at full 32-bit width (decoder_png.c)
    gpc,            \* "check", "composite", "done", "idle"
    fctl,           \* what png_get_next_frame_fcTL stored, each a uint32_t
    region_ok,      \* "none", "accepted" or "rejected" by the bounds check
    region_written, \* the canvas positions <<x, y>> the compositor wrote
    \* ---- main: the Kitty attempt, the ANSI fallback and the cleanup (main.c)
    mpc,            \* main's position
    main_opts,      \* opts.terminal.has_kitty, opts.force_ansi, opts.animate
    scaled_count,   \* frame_count
    scaled_frames,  \* each scaled frame buffer: "live" or "freed"
    scaled_arr,     \* the scaled_frames array itself: "live" or "freed"
    cleanup_idx,    \* the cleanup loop variable i
    faults,         \* accesses to released memory: <<what, frame>>
    exit_code       \* main's exit_code

decoderVars ==
    <<fmt, pc, declared, num_frames, frame_idx, heap, accumulator, previous,
      frames, frames_arr, row_pointers, frame_buffer, reader, cur, hist,
      counted, warned, err, result, frame_count>>

rendererVars ==
    <<mode, rpc, term, opts, img, y_top, line_buffer, line_ret,
      row_y, line_index, num_lines, lines, line_count, frame_ret, fail>>

imageVars == <<ipc, req_width, req_height, created, byte_count>>

playerVars ==
    <<ppc, anim_count, play_opts, play_frames, animation_running, handler,
      flag_writes, gen_idx, all_lines, all_line_counts, arrays, frame_height,
      play_idx, first_iteration, cursor, echo, echo_state, attrs_reset,
      displayed, ups, completed, checked, cancel_at, written, play_ret>>

blendVars == <<bpc, over_in, over_out>>

regionVars == <<gpc, fctl, region_ok, region_written>>

mainVars ==
    <<mpc, main_opts, scaled_count, scaled_frames, scaled_arr, cleanup_idx,
      faults, exit_code>>

vars ==
    <<decoderVars, rendererVars, imageVars, playerVars, blendVars, regionVars,
      mainVars>>

\* What each part never touches.
outsideDecoder == <<rendererVars, imageVars, playerVars, blendVars, regionVars, mainVars>>
outsideRenderer == <<decoderVars, imageVars, playerVars, blendVars, regionVars, mainVars>>
outsideImage == <<decoderVars, rendererVars, playerVars, blendVars, regionVars, mainVars>>
outsidePlayer == <<decoderVars, rendererVars, imageVars, blendVars, regionVars, mainVars>>
outsideBlend == <<decoderVars, rendererVars, imageVars, playerVars, regionVars, mainVars>>
outsideRegion == <<decoderVars, rendererVars, imageVars, playerVars, blendVars, mainVars>>
outsideMain == <<decoderVars, rendererVars, imageVars, playerVars, blendVars, regionVars>>

\* A canvas that does not exist, a terminal and options nobody has read.
NoImage == [width |-> 0, height |-> 0, pat |-> "none"]
NoTerminal == [rows |-> 0, cols |-> 0, graphics |-> FALSE]
NoOptions ==
    [has_custom_dimensions |-> FALSE, target_width |-> -1, target_height |-> -1,
     top_offset |-> 0, src_width |-> 0, src_height |-> 0]

\* The renderer's locals before any call.
RendererLocals ==
    /\ y_top = 0
    /\ line_buffer = <<>>
    /\ line_ret = "none"
    /\ row_y = 0
    /\ line_index = 0
    /\ num_lines = 0
    /\ lines = <<>>
    /\ line_count = -1
    /\ frame_ret = "none"
    /\ fail = "none"

\* image_create is not being called.
ImageIdle ==
    /\ ipc = "idle"
    /\ req_width = <<0, 0>>
    /\ req_height = <<0, 0>>
    /\ created = "none"
    /\ byte_count = -1

\* The player's locals and the terminal before render_animated runs.
PlayerLocals ==
    /\ animation_running = 1
    /\ handler = FALSE
    /\ flag_writes = {}
    /\ gen_idx = 0
    /\ all_lines = <<>>
    /\ all_line_counts = <<>>
    /\ arrays = "null"
    /\ frame_height = 0
    /\ ups = <<>>
    /\ cancel_at = -1
    /\ written = 0
    /\ play_idx = 0
    /\ first_iteration = TRUE
    /\ cursor = "shown"
    /\ echo = "on"
    /\ echo_state = "none"
    /\ attrs_reset = FALSE
    /\ displayed = <<>>
    /\ completed = 0
    /\ checked = -1
    /\ play_ret = "none"

\* No animation is being played.
PlayerIdle ==
    /\ ppc = "idle"
    /\ anim_count = 0
    /\ play_opts = [silent |-> TRUE, fit_mode |-> FALSE]
    /\ play_frames = <<>>
    /\ PlayerLocals

\* No pixel is being blended, no region checked, main is not running.
BlendIdle ==
    /\ bpc = "idle"
    /\ over_in = [src_c |-> 0, src_a |-> 0, dst_c |-> 0, dst_a |-> 0]
    /\ over_out = [wide |-> 0, stored |-> 0, out_a |-> 0]

RegionIdle ==
    /\ gpc = "idle"
    /\ fctl = [x_offset |-> <<0, 0>>, y_offset |-> <<0, 0>>,
               width |-> <<0, 0>>, height |-> <<0, 0>>]
    /\ region_ok = "none"
    /\ region_written = {}

MainLocals ==
    /\ scaled_frames = <<>>
    /\ scaled_arr = "null"
    /\ cleanup_idx = 0
    /\ faults = {}
    /\ exit_code = "EXIT_FAILURE"

MainIdle ==
    /\ mpc = "idle"
    /\ main_opts = [has_kitty |-> FALSE, force_ansi |-> FALSE, animate |-> FALSE]
    /\ scaled_count = 0
    /\ MainLocals

\* The three of them.
SmallPartsIdle == BlendIdle /\ RegionIdle /\ MainIdle

\* The renderer is not running.
RendererIdle ==
    /\ mode = "none"
    /\ rpc = "idle"
    /\ term = NoTerminal
    /\ opts = NoOptions
    /\ img = NoImage
    /\ RendererLocals

Min(a, b) == IF a < b THEN a ELSE b

\* The pixels a pointer refers to.
Pixels(ptr) == IF ptr = NULL THEN NoPixels ELSE heap[ptr].px

\* image_create that succeeded: a fresh zeroed buffer at the next address.
NewImage(h) == Append(h, [px |-> BlankPixels(CanvasW, CanvasH), live |-> TRUE])

\* image_destroy on each pointer of a set (NULL-safe).
Destroy(h, ptrs) ==
    [i \in 1..Len(h) |-> IF i \in ptrs THEN [px |-> NoPixels, live |-> FALSE] ELSE h[i]]

\* memcpy(dst->pixels, src_pixels, canvas_width * canvas_height * 4)
Memcpy(h, dst, src_px) == [h EXCEPT ![dst].px = src_px]

\* The frame counts a file may declare: none, a few, the cap and one beyond.
DeclaredCounts(cap) == (0..MaxFrames) \cup {cap, cap + 1}

Cap(f) ==
    CASE f = "gif" -> MAX_GIF_FRAMES
      [] f = "png" -> MAX_PNG_FRAMES
      [] OTHER -> MAX_JXL_FRAMES

\* The decoder has parsed the container (DGifSlurp, png_read_info) or is about
\* to count frames (jxl_get_info); nothing is allocated yet.
Init ==
    /\ fmt \in {"gif", "png", "jxl"}
    /\ declared \in DeclaredCounts(Cap(fmt))
    /\ pc = "open"
    /\ num_frames = 0
    /\ frame_idx = 0
    /\ heap = <<>>
    /\ accumulator = NULL
    /\ previous = NULL
    /\ frames = <<>>
    /\ frames_arr = "null"
    /\ row_pointers = "null"
    /\ frame_buffer = "null"
    /\ reader = "open"
    /\ cur = NoFrame
    /\ hist = <<>>
    /\ counted = 0
    /\ warned = FALSE
    /\ err = "none"
    /\ result = "none"
    /\ frame_count = 0
    /\ RendererIdle
    /\ ImageIdle
    /\ PlayerIdle
    /\ SmallPartsIdle

\* return NULL before anything but the library handle exists, after printing
\* error e.
ReturnNull(e) ==
    /\ err' = e
    /\ reader' = "closed"
    /\ result' = "null"
    /\ pc' = "done"

\* decode_gif_animated / decode_png_animated up to the frame loop: the frame
\* limit, the frames array and the accumulator canvas.
\* outcome: which allocation, if any, fails.
AnimatedSetup ==
    /\ pc = "open"
    /\ fmt \in {"gif", "png"}
    /\ \E outcome \in {"ok", "no_frames_array", "no_accumulator"} :
         LET capped == Min(declared, Cap(fmt))
         IN  IF declared = 0
               THEN /\ ReturnNull("no_frames")
                    /\ UNCHANGED <<num_frames, warned, heap, accumulator, frames, frames_arr>>
               ELSE /\ num_frames' = capped
                    /\ warned' = (declared > Cap(fmt))
                    /\ CASE outcome = "no_frames_array" ->
                              /\ ReturnNull("alloc")
                              /\ UNCHANGED <<heap, accumulator, frames, frames_arr>>
                         [] outcome = "no_accumulator" ->
                              /\ ReturnNull("alloc")
                              /\ frames' = <<>>
                              /\ frames_arr' = "freed"
                              /\ UNCHANGED <<heap, accumulator>>
                         [] OTHER ->
                              /\ frames' = [i \in 1..capped |-> NULL]
                              /\ frames_arr' = "live"
                              /\ heap' = NewImage(heap)
                              /\ accumulator' = Len(heap) + 1
                              /\ pc' = "frame_head"
                              /\ UNCHANGED <<reader, result, err>>
    /\ UNCHANGED <<fmt, declared, frame_idx, previous, row_pointers, frame_buffer,
                   cur, hist, counted, frame_count>>
    /\ UNCHANGED outsideDecoder


\* What was known of the frame being processed when it entered the loop body:
\* the canvas before it; shown and after are filled in by the later steps.
Entry(f) ==
    [f |-> f, before |-> Pixels(accumulator), shown |-> NoPixels, after |-> NoPixels]

\* GIF loop body up to the disposal backup: the image descriptor, the colour
\* map and the graphics control block of frame frame_idx.
GifFrameHead ==
    /\ pc = "frame_head"
    /\ fmt = "gif"
    /\ \E f \in GifFrames(declared) :
         /\ cur' = f
         /\ hist' = Append(hist, Entry(f))
         /\ pc' = IF f.color_map = NoColorMap THEN "cleanup_error" ELSE "backup"
         /\ err' = IF f.color_map = NoColorMap THEN "color_map" ELSE err
    /\ UNCHANGED <<fmt, declared, num_frames, frame_idx, heap, accumulator, previous,
                   frames, frames_arr, row_pointers, frame_buffer, reader, counted,
                   warned, result, frame_count>>
    /\ UNCHANGED outsideDecoder

\* APNG loop body up to the disposal backup: png_read_frame_head (which may
\* raise a libpng error), the fcTL chunk or its defaults, the bounds check.
\* Only the first frame may come without fcTL.
PngFrameHead ==
    /\ pc = "frame_head"
    /\ fmt = "png"
    /\ row_pointers' = "null"
    /\ frame_buffer' = "null"
    /\ \/ /\ pc' = "png_error"
          /\ err' = "library"
          /\ UNCHANGED <<cur, hist>>
       \/ \E g \in PngFrames(declared), fcTL \in BOOLEAN :
            LET f == IF fcTL THEN g
                     ELSE PngFrame(FullRegion, <<"mix", "Source">>, "None")
            IN  /\ fcTL \/ frame_idx = 0
                /\ cur' = f
                /\ hist' = Append(hist, Entry(f))
                /\ pc' = IF PngFrameExceedsCanvas(f) THEN "cleanup_error" ELSE "backup"
                /\ err' = IF PngFrameExceedsCanvas(f) THEN "bounds" ELSE err
    /\ UNCHANGED <<fmt, declared, num_frames, frame_idx, heap, accumulator, previous,
                   frames, frames_arr, reader, counted, warned, result, frame_count>>
    /\ UNCHANGED outsideDecoder

\* BackupPrevious without its memcpy: previous is created but never filled.
BackupPreviousNoCopy ==
    /\ pc = "backup"
    /\ LET next_pc == IF fmt = "gif" THEN "composite" ELSE "read_image"
       IN  IF cur.dispose_op = "Previous" /\ previous = NULL
             THEN /\ previous' = Len(heap) + 1
                  /\ heap' = NewImage(heap)
                  /\ pc' = next_pc
             ELSE /\ pc' = next_pc
                  /\ UNCHANGED <<heap, previous>>
    /\ UNCHANGED <<fmt, declared, num_frames, frame_idx, accumulator, frames, frames_arr,
                   row_pointers, frame_buffer, reader, cur, hist, counted, warned, err,
                   result, frame_count>>
    /\ UNCHANGED outsideDecoder

\* "Backup accumulator for DISPOSE_PREVIOUS": the lazy image_create of
\* previous (which may fail) and the memcpy accumulator -> previous.
BackupPrevious ==
    /\ pc = "backup"
    /\ LET next_pc == IF fmt = "gif" THEN "composite" ELSE "read_image"
       IN  IF cur.dispose_op = "Previous"
             THEN IF previous = NULL
                    THEN \/ /\ pc' = "cleanup_error"
                            /\ err' = "alloc"
                            /\ UNCHANGED <<heap, previous>>
                         \/ /\ previous' = Len(heap) + 1
                            /\ heap' = Memcpy(NewImage(heap), Len(heap) + 1, Pixels(accumulator))
                            /\ pc' = next_pc
                            /\ UNCHANGED err
                    ELSE /\ heap' = Memcpy(heap, previous, Pixels(accumulator))
                         /\ pc' = next_pc
                         /\ UNCHANGED <<previous, err>>
             ELSE /\ pc' = next_pc
                  /\ UNCHANGED <<heap, previous, err>>
    /\ UNCHANGED <<fmt, declared, num_frames, frame_idx, accumulator, frames, frames_arr,
                   row_pointers, frame_buffer, reader, cur, hist, counted, warned,
                   result, frame_count>>
    /\ UNCHANGED outsideDecoder

\* APNG: the row pointers and the frame buffer are allocated (either may
\* fail), then png_read_image fills the buffer or raises a libpng error.
PngReadImage ==
    /\ pc = "read_image"
    /\ \E outcome \in {"ok", "no_row_pointers", "no_frame_buffer", "png_error"} :
         CASE outcome = "no_row_pointers" ->
                /\ pc' = "cleanup_error"
                /\ err' = "alloc"
                /\ UNCHANGED <<row_pointers, frame_buffer>>
           [] outcome = "no_frame_buffer" ->
                /\ row_pointers' = "freed"
                /\ pc' = "cleanup_error"
                /\ err' = "alloc"
                /\ UNCHANGED frame_buffer
           [] outcome = "png_error" ->
                /\ row_pointers' = "live"
                /\ frame_buffer' = "live"
                /\ pc' = "png_error"
                /\ err' = "library"
           [] OTHER ->
                /\ row_pointers' = "live"
                /\ frame_buffer' = "live"
                /\ pc' = "composite"
                /\ UNCHANGED err
    /\ UNCHANGED <<fmt, declared, num_frames, frame_idx, heap, accumulator, previous,
                   frames, frames_arr, reader, cur, hist, counted, warned, result,
                   frame_count>>
    /\ UNCHANGED outsideDecoder

\* The accumulator after the frame's pixels have been composited onto it.
Composited(acc, f) ==
    IF f.kind = "gif" THEN frame_composition(acc, f) ELSE apng_composite_frame(acc, f)

\* "Composite current frame onto accumulator".
CompositeFrame ==
    /\ pc = "composite"
    /\ heap' = Memcpy(heap, accumulator, Composited(Pixels(accumulator), cur))
    /\ pc' = "clone"
    /\ UNCHANGED <<err, fmt, declared, num_frames, frame_idx, accumulator, previous, frames,
                   frames_arr, row_pointers, frame_buffer, reader, cur, hist, counted,
                   warned, result, frame_count>>
    /\ UNCHANGED outsideDecoder

\* The APNG temporaries after free(frame_buffer); free(row_pointers).
FreeTemporaries ==
    /\ row_pointers' = IF fmt = "png" THEN "freed" ELSE row_pointers
    /\ frame_buffer' = IF fmt = "png" THEN "freed" ELSE frame_buffer

\* OutputFrame storing the accumulator itself as the output frame instead of
\* a copy of it.
OutputFrameAliased ==
    /\ pc = "clone"
    /\ FreeTemporaries
    /\ frames' = [frames EXCEPT ![frame_idx + 1] = accumulator]
    /\ hist' = [hist EXCEPT ![Len(hist)].shown = Pixels(accumulator)]
    /\ pc' = "dispose"
    /\ UNCHANGED <<fmt, declared, num_frames, frame_idx, heap, accumulator, previous,
                   frames_arr, reader, cur, counted, warned, err, result, frame_count>>
    /\ UNCHANGED outsideDecoder

\* "Copy composed frame to output": image_create of frames[frame_idx] (which
\* may fail) and the memcpy accumulator -> frames[frame_idx].
OutputFrame ==
    /\ pc = "clone"
    /\ FreeTemporaries
    /\ \/ /\ pc' = "cleanup_error"
          /\ err' = "alloc"
          /\ UNCHANGED <<heap, frames, hist>>
       \/ /\ heap' = Memcpy(NewImage(heap), Len(heap) + 1, Pixels(accumulator))
          /\ frames' = [frames EXCEPT ![frame_idx + 1] = Len(heap) + 1]
          /\ hist' = [hist EXCEPT ![Len(hist)].shown = Pixels(accumulator)]
          /\ pc' = "dispose"
          /\ UNCHANGED err
    /\ UNCHANGED <<fmt, declared, num_frames, frame_idx, accumulator, previous,
                   frames_arr, reader, cur, counted, warned, result, frame_count>>
    /\ UNCHANGED outsideDecoder

\* "Apply disposal method for next frame", and the loop's frame_idx++.
DisposeFrame ==
    /\ pc = "dispose"
    /\ LET disposed == ApplyDisposal(Pixels(accumulator), cur, Pixels(previous))
       IN  /\ heap' = Memcpy(heap, accumulator, disposed)
           /\ hist' = [hist EXCEPT ![Len(hist)].after = disposed]
    /\ frame_idx' = frame_idx + 1
    /\ cur' = NoFrame
    /\ pc' = IF frame_idx + 1 < num_frames THEN "frame_head" ELSE "finish"
    /\ UNCHANGED <<err, fmt, declared, num_frames, accumulator, previous, frames, frames_arr,
                   row_pointers, frame_buffer, reader, counted, warned, result,
                   frame_count>>
    /\ UNCHANGED outsideDecoder

\* The normal exit: accumulator and previous destroyed, the handle closed,
\* *frame_count set, the frames returned.
FinishDecode ==
    /\ pc = "finish"
    /\ heap' = Destroy(heap, {accumulator, previous})
    /\ reader' = "closed"
    /\ frame_count' = num_frames
    /\ result' = "frames"
    /\ pc' = "done"
    /\ UNCHANGED <<err, fmt, declared, num_frames, frame_idx, accumulator, previous, frames,
                   frames_arr, row_pointers, frame_buffer, cur, hist, counted, warned>>
    /\ UNCHANGED outsideDecoder

\* cleanup_error: everything allocated so far is destroyed, NULL is returned.
CleanupError ==
    /\ pc = "cleanup_error"
    /\ heap' = Destroy(heap, {accumulator, previous} \cup {frames[i] : i \in 1..Len(frames)})
    /\ frames_arr' = "freed"
    /\ reader' = "closed"
    /\ result' = "null"
    /\ pc' = "done"
    /\ UNCHANGED <<err, fmt, declared, num_frames, frame_idx, accumulator, previous, frames,
                   row_pointers, frame_buffer, cur, hist, counted, warned, frame_count>>
    /\ UNCHANGED outsideDecoder

\* The setjmp handler of decode_png_animated, entered by longjmp from a
\* libpng error: it destroys the read struct and returns NULL.
PngSetjmpHandler ==
    /\ pc = "png_error"
    /\ reader' = "closed"
    /\ result' = "null"
    /\ pc' = "done"
    /\ UNCHANGED <<err, fmt, declared, num_frames, frame_idx, heap, accumulator, previous,
                   frames, frames_arr, row_pointers, frame_buffer, cur, hist, counted,
                   warned, frame_count>>
    /\ UNCHANGED outsideDecoder


\* ----------------------------------------------------------------- JPEG XL

\* jxl_get_info's event loop on JXL_DEC_FRAME: count the frame and enforce
\* the frame limit.
JxlCountFrame ==
    /\ pc = "open"
    /\ fmt = "jxl"
    /\ counted < declared
    /\ counted' = counted + 1
    /\ IF counted + 1 > MAX_JXL_FRAMES
         THEN ReturnNull("frame_limit")
         ELSE UNCHANGED <<reader, result, pc, err>>
    /\ UNCHANGED <<fmt, declared, num_frames, frame_idx, heap, accumulator, previous,
                   frames, frames_arr, row_pointers, frame_buffer, cur, hist, warned,
                   frame_count>>
    /\ UNCHANGED outsideDecoder

\* jxl_get_info on JXL_DEC_SUCCESS: all frames seen; decode_jxl then routes
\* to decode_jxl_static or decode_jxl_animated.
JxlInfoDone ==
    /\ pc = "open"
    /\ fmt = "jxl"
    /\ counted = declared
    /\ IF counted = 0
         THEN /\ ReturnNull("no_frames")
              /\ UNCHANGED num_frames
         ELSE /\ num_frames' = counted
              /\ pc' = "jxl_decode"
              /\ UNCHANGED <<reader, result, err>>
    /\ UNCHANGED <<fmt, declared, frame_idx, heap, accumulator, previous, frames,
                   frames_arr, row_pointers, frame_buffer, cur, hist, counted, warned,
                   frame_count>>
    /\ UNCHANGED outsideDecoder

\* decode_jxl_static / decode_jxl_animated as one step: libjxl delivers every
\* frame already composited, or any failure releases what was allocated.
JxlDecode ==
    /\ pc = "jxl_decode"
    /\ reader' = "closed"
    /\ pc' = "done"
    /\ \/ /\ result' = "null"
          /\ err' = "library"
          /\ frames_arr' = "freed"
          /\ UNCHANGED <<heap, frames, frame_count>>
       \/ /\ heap' = [i \in 1..num_frames |->
                        [px |-> [k \in 1..(CanvasW * CanvasH) |-> Blue], live |-> TRUE]]
          /\ frames' = [i \in 1..num_frames |-> i]
          /\ frames_arr' = "live"
          /\ frame_count' = num_frames
          /\ result' = "frames"
          /\ UNCHANGED err
    /\ UNCHANGED <<fmt, declared, num_frames, frame_idx, accumulator, previous,
                   row_pointers, frame_buffer, cur, hist, counted, warned>>
    /\ UNCHANGED outsideDecoder

\* --------------------------------------------------------------- behaviour

Next ==
    \/ AnimatedSetup
    \/ GifFrameHead
    \/ PngFrameHead
    \/ BackupPrevious
    \/ PngReadImage
    \/ CompositeFrame
    \/ OutputFrame
    \/ DisposeFrame
    \/ FinishDecode
    \/ CleanupError
    \/ PngSetjmpHandler
    \/ JxlCountFrame
    \/ JxlInfoDone
    \/ JxlDecode

Spec == Init /\ [][Next]_vars


\* ------------------------------------------------- ANSI renderer: the line

White == <<255, 255, 255, 255>>

\* The contents a canvas may have.
\*   "white": every pixel opaque white (three-digit channels everywhere);
\*   "edge":  alpha 127 and alpha 128 alternating like a chessboard;
\*   "clear": every pixel transparent black.
Patterns == {"white", "edge", "clear"}

\* image_get_pixel on a canvas, for a position inside it.
ImgPixel(im, px, py) ==
    CASE im.pat = "white" -> White
      [] im.pat = "edge" -> <<10, 200, 3, IF (px + py) % 2 = 0 THEN 127 ELSE 128>>
      [] OTHER -> <<0, 0, 0, 0>>

\* The number of characters "%d" prints for a uint8_t.
DecLen(v) == IF v < 10 THEN 1 ELSE IF v < 100 THEN 2 ELSE 3

\* TopEscape choosing the foreground sequences for the top pixel.
TopEscapeAsForeground(p) ==
    IF p[4] < 128 THEN <<"fg_default_space">> ELSE <<"fg_rgb_halfblock", p[1], p[2], p[3]>>

\* TopEscape with the threshold one too high: alpha 128 counts as transparent.
TopEscapeThreshold129(p) ==
    IF p[4] <= 128 THEN <<"bg_default">> ELSE <<"bg_rgb", p[1], p[2], p[3]>>

\* "Top pixel -> background color": ANSI_BG_TRANSPARENT or ANSI_BG_RGB.
TopEscape(p) ==
    IF p[4] < 128 THEN <<"bg_default">> ELSE <<"bg_rgb", p[1], p[2], p[3]>>

\* "Bottom pixel -> foreground color + half-block": ANSI_FG_TRANSPARENT (a
\* reset and a space) or ANSI_FG_RGB_HALFBLOCK.
BottomEscape(p) ==
    IF p[4] < 128 THEN <<"fg_default_space">> ELSE <<"fg_rgb_halfblock", p[1], p[2], p[3]>>

\* ANSI_RESET "\n"
ResetNewline == <<"reset_newline">>

\* The bytes snprintf would print for a sequence (its return value):
\*   ESC[48;2;R;G;Bm     10 + digits       ESC[0;39;49m   10
\*   ESC[38;2;R;G;Bm + the 3-byte U+2584   13 + digits
\*   ESC[0m + space       5                ESC[0m + \n     5
Bytes(tok) ==
    CASE tok[1] = "bg_rgb" -> 10 + DecLen(tok[2]) + DecLen(tok[3]) + DecLen(tok[4])
      [] tok[1] = "fg_rgb_halfblock" -> 13 + DecLen(tok[2]) + DecLen(tok[3]) + DecLen(tok[4])
      [] tok[1] = "bg_default" -> 10
      [] OTHER -> 5

\* What snprintf(ptr, remaining, ...) leaves in the buffer: the whole sequence
\* when it fits with its terminator, otherwise its first remaining - 1 bytes.
Snprintf(buf, rem, tok) ==
    IF Bytes(tok) < rem THEN Append(buf, tok)
    ELSE IF rem > 1 THEN Append(buf, <<"cut", tok, rem - 1>>)
    ELSE buf

\* InvalidRow without the parity test.
InvalidRowBoundsOnly(im, yt) == yt >= im.height - 1

\* "Validate y_top is even and within bounds". A canvas has height >= 1, so
\* the unsigned img->height - 1 does not wrap.
InvalidRow(im, yt) == yt % 2 # 0 \/ yt >= im.height - 1

\* One snprintf of generate_line_ansi and the overflow test after it, on the
\* function's state st: the buffer content, the local remaining and whether
\* the function has already returned NULL for an overflow.
Emit(st, tok) ==
    IF st.fail # "none" THEN st
    ELSE [buffer |-> Snprintf(st.buffer, st.remaining, tok),
          remaining |-> IF Bytes(tok) >= st.remaining THEN st.remaining
                        ELSE st.remaining - Bytes(tok),
          fail |-> IF Bytes(tok) >= st.remaining THEN "overflow" ELSE "none"]

\* The body of the column loop for column xx: the background sequence of the
\* top pixel, then the foreground sequence and glyph of the bottom pixel.
Column(st, im, yt, xx) ==
    Emit(Emit(st, TopEscape(ImgPixel(im, xx, yt))), BottomEscape(ImgPixel(im, xx, yt + 1)))

\* The column loop over the columns lo..hi-1 in increasing order, stopping at
\* the first overflow (evaluated by halves to keep the evaluation shallow on
\* wide canvases).
RECURSIVE LineLoop(_, _, _, _, _)
LineLoop(st, im, yt, lo, hi) ==
    IF hi <= lo THEN st
    ELSE IF hi = lo + 1 THEN Column(st, im, yt, lo)
    ELSE LET mid == (lo + hi) \div 2
             left == LineLoop(st, im, yt, lo, mid)
         IN  IF left.fail # "none" THEN left ELSE LineLoop(left, im, yt, mid, hi)

\* generate_line_ansi(img, y_top, line_buffer), buf being what the caller's
\* buffer holds at the call: what the function returns, what the buffer holds
\* then, and why NULL was returned.
generate_line_ansi(im, yt, buf) ==
    IF InvalidRow(im, yt)
      THEN [ret |-> "null", buffer |-> buf, fail |-> "invalid_row"]
      ELSE LET start == [buffer |-> buf, remaining |-> MAX_LINE_BUFFER_SIZE, fail |-> "none"]
               end == Emit(LineLoop(start, im, yt, 0, im.width), ResetNewline)
           IN  [ret |-> IF end.fail = "none" THEN "buffer" ELSE "null",
                buffer |-> end.buffer,
                fail |-> end.fail]

\* Where generate_line_ansi returns to.
LineReturnsTo == IF mode = "line" THEN "done" ELSE "frame_store"

\* A call of generate_line_ansi.
LineCall ==
    /\ rpc = "line_enter"
    /\ LET r == generate_line_ansi(img, y_top, line_buffer)
       IN  /\ line_ret' = r.ret
           /\ line_buffer' = r.buffer
           /\ fail' = r.fail
    /\ rpc' = LineReturnsTo
    /\ UNCHANGED <<mode, term, opts, img, y_top, row_y, line_index,
                   num_lines, lines, line_count, frame_ret>>
    /\ UNCHANGED outsideRenderer

\* ------------------------------------------------ ANSI renderer: the frame

\* A lines[] slot that holds no line (NULL).
NoLine == <<>>

\* NumLines rounding up, as if the unpaired last row made a line.
NumLinesRoundsUp(h) == (h + 1) \div 2

\* "Calculate line count (height / 2, round down to even)".
NumLines(h) == h \div 2

\* generate_frame_ansi up to its loop: the line count and the lines array
\* (whose allocation may fail).
FrameEnter ==
    /\ rpc = "frame_enter"
    /\ num_lines' = NumLines(img.height)
    /\ IF NumLines(img.height) = 0
         THEN /\ line_count' = 0
              /\ frame_ret' = "null"
              /\ fail' = "empty"
              /\ rpc' = "done"
              /\ UNCHANGED <<lines, line_index, row_y>>
         ELSE \/ /\ frame_ret' = "null"
                 /\ fail' = "alloc"
                 /\ rpc' = "done"
                 /\ UNCHANGED <<lines, line_index, row_y, line_count>>
              \/ /\ lines' = [i \in 1..NumLines(img.height) |-> NoLine]
                 /\ line_index' = 0
                 /\ row_y' = 0
                 /\ rpc' = "frame_loop"
                 /\ UNCHANGED <<line_count, frame_ret, fail>>
    /\ UNCHANGED <<mode, term, opts, img, y_top, line_buffer, line_ret>>
    /\ UNCHANGED outsideRenderer

\* The loop test of generate_frame_ansi, then either the malloc of a line
\* buffer (which may fail) and the call of generate_line_ansi, or the return
\* of the lines.
FrameLoop ==
    /\ rpc = "frame_loop"
    /\ IF row_y < img.height - 1
         THEN \/ /\ lines' = <<>>
                 /\ frame_ret' = "null"
                 /\ fail' = "alloc"
                 /\ rpc' = "done"
                 /\ UNCHANGED <<line_buffer, y_top, line_ret, line_count>>
              \/ /\ line_buffer' = <<>>
                 /\ y_top' = row_y
                 /\ line_ret' = "none"
                 /\ rpc' = "line_enter"
                 /\ UNCHANGED <<lines, frame_ret, fail, line_count>>
         ELSE /\ line_count' = num_lines
              /\ frame_ret' = "lines"
              /\ rpc' = "done"
              /\ UNCHANGED <<lines, line_buffer, y_top, line_ret, fail>>
    /\ UNCHANGED <<mode, term, opts, img, row_y, line_index, num_lines>>
    /\ UNCHANGED outsideRenderer

\* Back from generate_line_ansi: on NULL everything is freed and NULL is
\* returned, otherwise the line is stored and the loop goes on with y += 2.
FrameStore ==
    /\ rpc = "frame_store"
    /\ IF line_ret = "null"
         THEN /\ lines' = <<>>
              /\ frame_ret' = "null"
              /\ rpc' = "done"
              /\ UNCHANGED <<line_index, row_y>>
         ELSE /\ lines' = [lines EXCEPT ![line_index + 1] = line_buffer]
              /\ line_index' = line_index + 1
              /\ row_y' = row_y + 2
              /\ rpc' = "frame_loop"
              /\ UNCHANGED frame_ret
    /\ UNCHANGED <<mode, term, opts, img, y_top, line_buffer, line_ret, num_lines,
                   line_count, fail>>
    /\ UNCHANGED outsideRenderer

\* ------------------------------------ what a terminal makes of the sequences

\* The terminal's default background.
DefaultBackground == <<>>

\* The sequences of ansi.h that set the background before anything they
\* print: ESC[48;2;R;G;Bm sets it to (R,G,B); ESC[0;39;49m and the ESC[0m
\* that opens ANSI_FG_TRANSPARENT and ANSI_RESET set it to the default.
\* ESC[38;2;R;G;Bm leaves it alone.
SetsBackground(tok) ==
    tok[1] \in {"bg_rgb", "bg_default", "fg_default_space", "reset_newline"}

BackgroundSet(tok) ==
    IF tok[1] = "bg_rgb" THEN <<tok[2], tok[3], tok[4]>> ELSE DefaultBackground

\* The terminal's background colour when the printable character of the
\* k-th sequence of a line is drawn: what the last background-setting
\* sequence up to and including the k-th left.
BackgroundAt(buf, k) ==
    LET setters == {j \in 1..k : SetsBackground(buf[j])}
    IN  IF setters = {} THEN DefaultBackground
        ELSE BackgroundSet(buf[CHOOSE j \in setters : \A i \in setters : i <= j])

\* --------------------------------------- what sizes the canvas: the pipeline

\* (uint32_t)roundf((float)a * b / c) for the small positive values explored.
RoundDiv(a, b) == (2 * a + b) \div (2 * b)

\* calculate_target_dimensions: <<width, height>>, <<0, 0>> when invalid.
calculate_target_dimensions(c, rows, top_offset) ==
    IF c = 0 \/ rows = 0 \/ top_offset >= rows THEN <<0, 0>>
    ELSE LET target_width == c * RESIZE_FACTOR_X
             target_height == (rows - top_offset) * RESIZE_FACTOR_Y
         IN  <<IF target_width > MAX_TERMINAL_WIDTH THEN MAX_TERMINAL_WIDTH ELSE target_width,
               target_height>>

\* calculate_custom_dimensions: <<width, height>>, <<0, 0>> when it fails.
calculate_custom_dimensions(src_width, src_height, target_width, target_height) ==
    IF src_width = 0 \/ src_height = 0 THEN <<0, 0>>
    ELSE IF target_width > 0 /\ target_height > 0 THEN <<target_width, target_height>>
    ELSE IF target_width > 0
      THEN <<target_width, RoundDiv(target_width * src_height, src_width)>>
    ELSE IF target_height > 0
      THEN <<RoundDiv(target_height * src_width, src_height), target_height>>
    ELSE <<0, 0>>

\* validate_options, the custom dimensions part: the option set is refused.
OptionsRefused(t, o) ==
    /\ o.has_custom_dimensions
    /\ LET max_width == t.cols * RESIZE_FACTOR_X
           max_height == (t.rows - o.top_offset) * RESIZE_FACTOR_Y
       IN  \/ o.target_width > 0 /\ o.target_width > max_width /\ ~t.graphics
           \/ o.target_height > 0 /\ o.target_height > max_height /\ ~t.graphics
           \/ o.target_width <= 0 /\ o.target_height <= 0

\* main: validate_options after parse_arguments.
ValidateOptions ==
    /\ rpc = "validate_options"
    /\ IF OptionsRefused(term, opts)
         THEN rpc' = "done" /\ fail' = "options"
         ELSE rpc' = "scale" /\ UNCHANGED fail
    /\ UNCHANGED <<mode, term, opts, img, y_top, line_buffer, line_ret,
                   row_y, line_index, num_lines, lines, line_count, frame_ret>>
    /\ UNCHANGED outsideRenderer

\* The contents explored for a scaled canvas: every pattern on a small one,
\* the longest sequences on a wide one.
ScaledPatterns(w) == IF w > MaxImgW THEN {"white"} ELSE Patterns

\* pipeline_scale in resize mode, then pipeline_render -> render_static_frame
\* calling generate_frame_ansi on the scaled frame.
PipelineScale ==
    /\ rpc = "scale"
    /\ LET target == IF opts.has_custom_dimensions
                       THEN calculate_custom_dimensions(opts.src_width, opts.src_height,
                                                        opts.target_width, opts.target_height)
                       ELSE calculate_target_dimensions(term.cols, term.rows, opts.top_offset)
       IN  IF target[1] = 0 \/ target[2] = 0
             THEN /\ rpc' = "done"
                  /\ fail' = "dimensions"
                  /\ UNCHANGED img
             ELSE \/ /\ rpc' = "done"
                     /\ fail' = "alloc"
                     /\ UNCHANGED img
                  \/ \E p \in ScaledPatterns(target[1]) :
                       /\ img' = [width |-> target[1], height |-> target[2], pat |-> p]
                       /\ rpc' = "frame_enter"
                       /\ UNCHANGED fail
    /\ UNCHANGED <<mode, term, opts, y_top, line_buffer, line_ret,
                   row_y, line_index, num_lines, lines, line_count, frame_ret>>
    /\ UNCHANGED outsideRenderer


\* ------------------------------------------------------- renderer behaviour

\* The canvases explored pixel by pixel.
SmallCanvases ==
    {[width |-> w, height |-> h, pat |-> p] : w \in 1..MaxImgW, h \in 1..MaxImgH, p \in Patterns}

\* The bytes of the longest cell: both pixels opaque with three-digit channels.
LongestCell == Bytes(TopEscape(White)) + Bytes(BottomEscape(White))

\* The widest canvas whose longest line still fits the line buffer with its
\* reset, newline and terminator, and the first width that does not.
WidestThatFits == (MAX_LINE_BUFFER_SIZE - Bytes(ResetNewline) - 1) \div LongestCell
WideCols == WidestThatFits + 1

\* Two-row canvases of the longest cells at the limit of the line buffer.
WideCanvases == {[width |-> w, height |-> 2, pat |-> "white"] : w \in {WidestThatFits, WideCols}}

\* Terminals and option sets of a run of the program: without -w/-h on
\* narrow and very wide terminals, and with -w and/or -h for a square and for
\* a very wide source image.
PipelineInputs ==
    {<<[rows |-> r, cols |-> c, graphics |-> FALSE],
       [has_custom_dimensions |-> FALSE, target_width |-> -1, target_height |-> -1,
        top_offset |-> o, src_width |-> 1, src_height |-> 1]>> :
         r \in 1..2, c \in (1..MaxImgW) \cup {WideCols}, o \in 0..1}
    \cup
    {<<[rows |-> r, cols |-> c, graphics |-> g],
       [has_custom_dimensions |-> TRUE, target_width |-> tw, target_height |-> th,
        top_offset |-> 0, src_width |-> s[1], src_height |-> s[2]]>> :
         r \in 1..2, c \in {MaxImgW}, g \in BOOLEAN,
         tw \in {-1} \cup (1..(MaxImgW + 1)), th \in {-1, 2, 3},
         s \in {<<1, 1>>, <<WideCols, 2>>}}

\* Nothing is being decoded.
DecoderIdle ==
    /\ fmt = "none"
    /\ declared = 0
    /\ pc = "idle"
    /\ num_frames = 0
    /\ frame_idx = 0
    /\ heap = <<>>
    /\ accumulator = NULL
    /\ previous = NULL
    /\ frames = <<>>
    /\ frames_arr = "null"
    /\ row_pointers = "null"
    /\ frame_buffer = "null"
    /\ reader = "closed"
    /\ cur = NoFrame
    /\ hist = <<>>
    /\ counted = 0
    /\ warned = FALSE
    /\ err = "none"
    /\ result = "none"
    /\ frame_count = 0

\* A call of generate_line_ansi on a canvas with any row number, a call of
\* generate_frame_ansi on a canvas, or a run of the program from its options.
RenderInit ==
    /\ DecoderIdle
    /\ ImageIdle
    /\ PlayerIdle
    /\ SmallPartsIdle
    /\ line_buffer = <<>>
    /\ line_ret = "none"
    /\ row_y = 0
    /\ line_index = 0
    /\ num_lines = 0
    /\ lines = <<>>
    /\ line_count = -1
    /\ frame_ret = "none"
    /\ fail = "none"
    /\ \/ /\ mode = "line"
          /\ rpc = "line_enter"
          /\ img \in SmallCanvases \cup WideCanvases
          /\ y_top \in 0..MaxImgH
          /\ term = NoTerminal
          /\ opts = NoOptions
       \/ /\ mode = "frame"
          /\ rpc = "frame_enter"
          /\ img \in SmallCanvases
          /\ y_top = 0
          /\ term = NoTerminal
          /\ opts = NoOptions
       \/ /\ mode = "pipeline"
          /\ rpc = "validate_options"
          /\ img = NoImage
          /\ y_top = 0
          /\ \E input \in PipelineInputs : term = input[1] /\ opts = input[2]

RenderNext ==
    \/ LineCall
    \/ FrameEnter
    \/ FrameLoop
    \/ FrameStore
    \/ ValidateOptions
    \/ PipelineScale

RenderSpec == RenderInit /\ [][RenderNext]_vars


\* ------------------------------------------------------------ image_create

\* A uint32_t is held as <<high 16 bits, low 16 bits>>.
IsZero32(v) == v[1] = 0 /\ v[2] = 0

\* v > limit for a limit below 65536.
Exceeds32(v, limit) == v[1] > 0 \/ v[2] > limit

\* The number a uint32_t holds, for one below 65536.
Value32(v) == v[2]

UINT32_MAX == <<65535, 65535>>

\* image_calculate_size without the total pixel count test.
image_calculate_size_no_pixel_limit(width, height) ==
    IF IsZero32(width) \/ IsZero32(height) THEN [ok |-> FALSE, size |-> -1]
    ELSE IF Exceeds32(width, IMAGE_MAX_DIMENSION) \/ Exceeds32(height, IMAGE_MAX_DIMENSION)
      THEN [ok |-> FALSE, size |-> -1]
    ELSE [ok |-> TRUE, size |-> Value32(width) * Value32(height) * 4]

\* image_calculate_size: whether the dimensions are accepted, and *out_size.
\* Past the per-axis test the pixel count is at most 16384 * 16384 = 2^28 and
\* past the pixel count test the byte count is at most 400,000,000: neither
\* product wraps in a size_t of 32 or of 64 bits.
image_calculate_size(width, height) ==
    IF IsZero32(width) \/ IsZero32(height) THEN [ok |-> FALSE, size |-> -1]
    ELSE IF Exceeds32(width, IMAGE_MAX_DIMENSION) \/ Exceeds32(height, IMAGE_MAX_DIMENSION)
      THEN [ok |-> FALSE, size |-> -1]
    ELSE LET pixel_count == Value32(width) * Value32(height)
             bytes == pixel_count * 4
         IN  IF pixel_count > IMAGE_MAX_PIXELS THEN [ok |-> FALSE, size |-> -1]
             ELSE IF bytes \div 4 # pixel_count THEN [ok |-> FALSE, size |-> -1]
             ELSE [ok |-> TRUE, size |-> bytes]

\* image_create: the validation, then the two allocations, either of which
\* may fail.
ImageCreate ==
    /\ ipc = "call"
    /\ LET r == image_calculate_size(req_width, req_height)
       IN  /\ byte_count' = r.size
           /\ IF r.ok THEN created' \in {"image", "null"} ELSE created' = "null"
    /\ ipc' = "done"
    /\ UNCHANGED <<req_width, req_height>>
    /\ UNCHANGED outsideImage

\* The dimensions asked for: the smallest ones, the limits and their
\* neighbours, and values that need more than 16 and up to all 32 bits.
Dimensions ==
    {<<0, v>> : v \in (0..MaxDim) \cup {10, 10000, 10001, 16383, 16384, 16385, 65535}}
    \cup {<<1, 0>>, <<1, 1>>, UINT32_MAX}

ImageInit ==
    /\ DecoderIdle
    /\ RendererIdle
    /\ PlayerIdle
    /\ SmallPartsIdle
    /\ ipc = "call"
    /\ req_width \in Dimensions
    /\ req_height \in Dimensions
    /\ created = "none"
    /\ byte_count = -1

ImageNext == ImageCreate

ImageSpec == ImageInit /\ [][ImageNext]_vars


\* ------------------------------------ one BLEND_OP_OVER pixel at 8-bit width

\* The channel and alpha values explored: both ends of the range, the
\* middle, and their neighbours.
ByteSamples == {0, 1, 2, 127, 128, 254, 255}

\* "Calculate output alpha": uint16_t out_a.
OverOutAlpha(src_a, dst_a) == U16(src_a + ((dst_a * (255 - src_a)) \div 255))

\* The value of the channel expression before the (uint8_t) cast, computed
\* in int; evaluated only where out_a > 0.
OverChannelWide(src_c, src_a, dst_c, dst_a) ==
    (src_c * src_a + (dst_c * dst_a * (255 - src_a)) \div 255)
        \div OverOutAlpha(src_a, dst_a)

\* BLEND_OP_OVER on one channel of one pixel: what is computed, and what
\* OverBlend stores in the accumulator.
OverPixel ==
    /\ bpc = "call"
    /\ LET i == over_in
           out_a == OverOutAlpha(i.src_a, i.dst_a)
           px == OverBlend(<<i.src_c, i.src_c, i.src_c, i.src_a>>,
                           <<i.dst_c, i.dst_c, i.dst_c, i.dst_a>>)
       IN  over_out' = [wide |-> IF out_a > 0
                                   THEN OverChannelWide(i.src_c, i.src_a, i.dst_c, i.dst_a)
                                   ELSE i.dst_c,
                        stored |-> px[1],
                        out_a |-> out_a]
    /\ bpc' = "done"
    /\ UNCHANGED over_in
    /\ UNCHANGED outsideBlend

\* Any source pixel over any accumulator pixel.
BlendInit ==
    /\ DecoderIdle
    /\ RendererIdle
    /\ ImageIdle
    /\ PlayerIdle
    /\ RegionIdle
    /\ MainIdle
    /\ bpc = "call"
    /\ over_in \in [src_c : ByteSamples, src_a : ByteSamples,
                    dst_c : ByteSamples, dst_a : ByteSamples]
    /\ over_out = [wide |-> 0, stored |-> 0, out_a |-> 0]

BlendNext == OverPixel

BlendSpec == BlendInit /\ [][BlendNext]_vars

\* --------------------------- the APNG frame region in 32-bit unsigned arithmetic

\* a + b in uint32_t, and whether the sum left the 32 bits.
Add32(a, b) ==
    LET lo == a[2] + b[2]
        hi == a[1] + b[1] + (lo \div 65536)
    IN  <<hi % 65536, lo % 65536>>

Carries32(a, b) == a[1] + b[1] + ((a[2] + b[2]) \div 65536) >= 65536

\* a > b in uint32_t.
Greater32(a, b) == a[1] > b[1] \/ (a[1] = b[1] /\ a[2] > b[2])

\* The canvas size (the IHDR size) as uint32_t.
canvas_width == <<0, CanvasW>>
canvas_height == <<0, CanvasH>>

\* "Validate frame dimensions and offsets": the test that rejects the frame.
ExceedsCanvasBounds(f) ==
    \/ Greater32(Add32(f.x_offset, f.width), canvas_width)
    \/ Greater32(Add32(f.y_offset, f.height), canvas_height)

\* The canvas positions apng_composite_frame writes for a frame: canvas_x and
\* canvas_y are uint32_t sums, and a position is skipped when it is not
\* below the canvas size.
CompositeWrites(f) ==
    {<<Value32(Add32(f.x_offset, <<0, x>>)), Value32(Add32(f.y_offset, <<0, y>>))>> :
        <<x, y>> \in {c \in (0..(Value32(f.width) - 1)) \X (0..(Value32(f.height) - 1)) :
                        /\ ~Greater32(Add32(f.x_offset, <<0, c[1]>>), <<0, CanvasW - 1>>)
                        /\ ~Greater32(Add32(f.y_offset, <<0, c[2]>>), <<0, CanvasH - 1>>)}}

\* decode_png_animated: the bounds check on what the fcTL chunk declared.
RegionCheck ==
    /\ gpc = "check"
    /\ IF ExceedsCanvasBounds(fctl)
         THEN region_ok' = "rejected" /\ gpc' = "done"
         ELSE region_ok' = "accepted" /\ gpc' = "composite"
    /\ UNCHANGED <<fctl, region_written>>
    /\ UNCHANGED outsideRegion

\* apng_composite_frame on the accepted frame.
RegionComposite ==
    /\ gpc = "composite"
    /\ region_written' = CompositeWrites(fctl)
    /\ gpc' = "done"
    /\ UNCHANGED <<fctl, region_ok>>
    /\ UNCHANGED outsideRegion

\* The offsets explored: small ones, the canvas edge, and the top of the
\* 32-bit range; widths and heights of one or two pixels.
Offsets32(edge) == {<<0, 0>>, <<0, 1>>, <<0, edge>>, <<65535, 65534>>, <<65535, 65535>>}
Extents32 == {<<0, 1>>, <<0, 2>>}

\* png_get_next_frame_fcTL has stored four png_uint_32 values.
RegionInit ==
    /\ DecoderIdle
    /\ RendererIdle
    /\ ImageIdle
    /\ PlayerIdle
    /\ BlendIdle
    /\ MainIdle
    /\ gpc = "check"
    /\ fctl \in [x_offset : Offsets32(CanvasW), y_offset : Offsets32(CanvasH),
                 width : Extents32, height : Extents32]
    /\ region_ok = "none"
    /\ region_written = {}

RegionNext == RegionCheck \/ RegionComposite

RegionSpec == RegionInit /\ [][RegionNext]_vars

\* -------------------- main: the Kitty attempt, the ANSI fallback, the cleanup

\* An access to frame i of scaled_frames goes through the array and then
\* through the frame: the faults it adds when either has been released.
\* what is "read" or "free".
FrameAccess(what, i) ==
    (IF scaled_arr = "freed" THEN {<<"read", -1>>} ELSE {})
        \cup (IF scaled_frames[i + 1] = "freed" THEN {<<what, i>>} ELSE {})

\* "STEP 4.1": kitty_render is called when the terminal has the Kitty
\* protocol and ANSI is not forced. It reads frames[0]; when base64_encode
\* fails it calls decoder_free_frames(frames, frame_count) and returns -1,
\* and main goes on to pipeline_render; when it succeeds main goes to cleanup
\* with EXIT_SUCCESS.
KittyRender ==
    /\ mpc = "kitty"
    /\ IF main_opts.has_kitty /\ ~main_opts.force_ansi
         THEN \/ /\ exit_code' = "EXIT_SUCCESS"
                 /\ mpc' = "cleanup"
                 /\ UNCHANGED <<scaled_frames, scaled_arr>>
              \/ /\ scaled_frames' = [i \in 1..scaled_count |-> "freed"]
                 /\ scaled_arr' = "freed"
                 /\ mpc' = "render"
                 /\ UNCHANGED exit_code
         ELSE /\ mpc' = "render"
              /\ UNCHANGED <<scaled_frames, scaled_arr, exit_code>>
    /\ UNCHANGED <<main_opts, scaled_count, cleanup_idx, faults>>
    /\ UNCHANGED outsideMain

\* "STEP 4.2": pipeline_render reads frames[0], and every frame when it
\* animates more than one; it succeeds or fails.
PipelineRender ==
    /\ mpc = "render"
    /\ LET used == IF scaled_count > 1 /\ main_opts.animate
                     THEN 0..(scaled_count - 1) ELSE {0}
       IN  faults' = faults \cup UNION {FrameAccess("read", i) : i \in used}
    /\ \/ exit_code' = "EXIT_SUCCESS"
       \/ UNCHANGED exit_code
    /\ mpc' = "cleanup"
    /\ UNCHANGED <<main_opts, scaled_count, scaled_frames, scaled_arr, cleanup_idx>>
    /\ UNCHANGED outsideMain

\* "Free scaled frames": image_destroy(scaled_frames[i]) for one i, and
\* free(scaled_frames) after the last.
CleanupScaled ==
    /\ mpc = "cleanup"
    /\ IF cleanup_idx < scaled_count
         THEN /\ faults' = faults \cup FrameAccess("free", cleanup_idx)
              /\ scaled_frames' = [scaled_frames EXCEPT ![cleanup_idx + 1] = "freed"]
              /\ cleanup_idx' = cleanup_idx + 1
              /\ UNCHANGED <<mpc, scaled_arr>>
         ELSE /\ faults' = faults \cup (IF scaled_arr = "freed" THEN {<<"free", -1>>} ELSE {})
              /\ scaled_arr' = "freed"
              /\ mpc' = "exit"
              /\ UNCHANGED <<scaled_frames, cleanup_idx>>
    /\ UNCHANGED <<main_opts, scaled_count, exit_code>>
    /\ UNCHANGED outsideMain

\* pipeline_scale has succeeded: scaled_frames holds frame_count live frames.
MainInit ==
    /\ DecoderIdle
    /\ RendererIdle
    /\ ImageIdle
    /\ PlayerIdle
    /\ BlendIdle
    /\ RegionIdle
    /\ mpc = "kitty"
    /\ main_opts \in [has_kitty : BOOLEAN, force_ansi : BOOLEAN, animate : BOOLEAN]
    /\ scaled_count \in 1..MaxAnimFrames
    /\ scaled_frames = [i \in 1..scaled_count |-> "live"]
    /\ scaled_arr = "live"
    /\ cleanup_idx = 0
    /\ faults = {}
    /\ exit_code = "EXIT_FAILURE"

MainNext == KittyRender \/ PipelineRender \/ CleanupScaled

MainSpec == MainInit /\ [][MainNext]_vars

\* ------------------------------------------- the animation player (pipeline.c)

\* The pages explored as decoded frames (width, height): the frames of a GIF
\* or an APNG share one size, the pages of a TIFF each have their own.
PageSizes == {<<2, 2>>, <<4, 2>>, <<8, 2>>}

\* The terminal the frames are scaled for: 4 columns, 2 rows, no top offset.
PlayTarget == calculate_target_dimensions(4, 2, 0)

\* image_scale_fit's new_width and new_height: <<0, 0>> where it returns NULL.
image_scale_fit(src_w, src_h, target_width, target_height) ==
    IF target_width = 0 \/ target_height = 0 THEN <<0, 0>>
    ELSE IF src_w * target_height > target_width * src_h
      THEN LET new_height == RoundDiv(target_width * src_h, src_w)
           IN  IF new_height > target_height
                 THEN <<RoundDiv(target_height * src_w, src_h), target_height>>
                 ELSE <<target_width, new_height>>
      ELSE LET new_width == RoundDiv(target_height * src_w, src_h)
           IN  IF new_width > target_width
                 THEN <<target_width, RoundDiv(target_width * src_h, src_w)>>
                 ELSE <<new_width, target_height>>

\* image_scale_resize's output size.
image_scale_resize(src_w, src_h, target_width, target_height) ==
    IF target_width = 0 \/ target_height = 0 THEN <<0, 0>>
    ELSE <<target_width, target_height>>

\* pipeline_scale's "Scale each frame" without custom dimensions: the scaled
\* size of every frame, in order.
ScaleEachFrame(pages, fit_mode) ==
    [i \in 1..Len(pages) |->
        LET d == IF fit_mode
                   THEN image_scale_fit(pages[i][1], pages[i][2], PlayTarget[1], PlayTarget[2])
                   ELSE image_scale_resize(pages[i][1], pages[i][2], PlayTarget[1], PlayTarget[2])
        IN  [width |-> d[1], height |-> d[2]]]

\* signal_handler: SIGINT arrives while the handler is installed and the
\* player has not returned.
Sigint ==
    /\ handler
    /\ ppc \notin {"idle", "returned"}
    /\ animation_running = 1
    /\ animation_running' = 0
    /\ flag_writes' = flag_writes \cup {"signal_handler"}
    /\ cancel_at' = Len(displayed)
    /\ UNCHANGED <<ppc, anim_count, play_opts, play_frames, handler, gen_idx, all_lines,
                   all_line_counts, arrays, frame_height, play_idx, first_iteration,
                   cursor, echo, echo_state, attrs_reset, displayed, ups, completed,
                   checked, written, play_ret>>
    /\ UNCHANGED outsidePlayer

\* render_animated up to the pre-generation: the parameter check,
\* setup_signal_handler and the two arrays (whose allocation may fail).
PlayerEnter ==
    /\ ppc = "start"
    /\ IF anim_count <= 0
         THEN /\ play_ret' = "-1"
              /\ ppc' = "returned"
              /\ UNCHANGED <<animation_running, handler, flag_writes, arrays>>
         ELSE /\ animation_running' = 1
              /\ handler' = TRUE
              /\ flag_writes' = flag_writes \cup {"setup_signal_handler"}
              /\ \/ play_ret' = "-1" /\ ppc' = "returned" /\ UNCHANGED arrays
                 \/ ppc' = "generate" /\ arrays' = "live" /\ UNCHANGED play_ret
    /\ UNCHANGED <<anim_count, play_opts, play_frames, gen_idx, all_lines,
                   all_line_counts, frame_height, play_idx, first_iteration, cursor,
                   echo, echo_state, attrs_reset, displayed, ups, completed, checked,
                   cancel_at, written>>
    /\ UNCHANGED outsidePlayer

\* PlayerGenerate returning at a failure without freeing the lines of the
\* frames generated before it.
PlayerGenerateKeepsLines ==
    /\ ppc = "generate"
    /\ LET n == NumLines(play_frames[gen_idx + 1].height)
       IN  \/ /\ n > 0
              /\ all_lines' = Append(all_lines, "live")
              /\ all_line_counts' = Append(all_line_counts, n)
              /\ gen_idx' = gen_idx + 1
              /\ ppc' = IF gen_idx + 1 < anim_count THEN "generate" ELSE "hide"
              /\ UNCHANGED <<arrays, play_ret>>
           \/ /\ arrays' = "freed"
              /\ play_ret' = "-1"
              /\ ppc' = "returned"
              /\ UNCHANGED <<all_lines, all_line_counts, gen_idx>>
    /\ UNCHANGED <<anim_count, play_opts, play_frames, animation_running, handler,
                   flag_writes, frame_height, play_idx, first_iteration, cursor, echo,
                   echo_state, attrs_reset, displayed, ups, completed, checked,
                   cancel_at, written>>
    /\ UNCHANGED outsidePlayer

\* One round of "Generate ANSI for each frame": generate_frame_ansi on frame
\* gen_idx, which returns NULL for a frame without a row pair and whenever an
\* allocation fails; the failure frees the lines generated so far and the two
\* arrays and returns -1.
PlayerGenerate ==
    /\ ppc = "generate"
    /\ LET n == NumLines(play_frames[gen_idx + 1].height)
       IN  \/ /\ n > 0
              /\ all_lines' = Append(all_lines, "live")
              /\ all_line_counts' = Append(all_line_counts, n)
              /\ gen_idx' = gen_idx + 1
              /\ ppc' = IF gen_idx + 1 < anim_count THEN "generate" ELSE "hide"
              /\ UNCHANGED <<arrays, play_ret>>
           \/ /\ all_lines' = [j \in 1..Len(all_lines) |-> "freed"]
              /\ arrays' = "freed"
              /\ play_ret' = "-1"
              /\ ppc' = "returned"
              /\ UNCHANGED <<all_line_counts, gen_idx>>
    /\ UNCHANGED <<anim_count, play_opts, play_frames, animation_running, handler,
                   flag_writes, frame_height, play_idx, first_iteration, cursor, echo,
                   echo_state, attrs_reset, displayed, ups, completed, checked,
                   cancel_at, written>>
    /\ UNCHANGED outsidePlayer

\* "Get frame height for cursor positioning", "Hide cursor and disable echo":
\* terminal_disable_echo returns the saved state, or NULL when it could not
\* switch echo off.
PlayerHide ==
    /\ ppc = "hide"
    /\ frame_height' = all_line_counts[1]
    /\ cursor' = "hidden"
    /\ \E switched \in BOOLEAN :
         /\ echo_state' = IF switched THEN "saved" ELSE "null"
         /\ echo' = IF switched THEN "off" ELSE echo
    /\ first_iteration' = TRUE
    /\ ppc' = "while_test"
    /\ UNCHANGED <<anim_count, play_opts, play_frames, animation_running, handler,
                   flag_writes, gen_idx, all_lines, all_line_counts, arrays, play_idx,
                   attrs_reset, displayed, ups, completed, checked, cancel_at, written,
                   play_ret>>
    /\ UNCHANGED outsidePlayer

\* while (*running): into the for loop with frame_idx = 0, or out of the loop.
PlayerWhileTest ==
    /\ ppc = "while_test"
    /\ IF animation_running = 1
         THEN play_idx' = 0 /\ ppc' = "frame_check"
         ELSE ppc' = "restore" /\ UNCHANGED play_idx
    /\ UNCHANGED <<anim_count, play_opts, play_frames, animation_running, handler,
                   flag_writes, gen_idx, all_lines, all_line_counts, arrays,
                   frame_height, first_iteration, cursor, echo, echo_state, attrs_reset,
                   displayed, ups, completed, checked, cancel_at, written, play_ret>>
    /\ UNCHANGED outsidePlayer

\* PlayerFrameCheck without "Check running flag": only the while test reads
\* the flag.
PlayerFrameCheckIgnoresFlag ==
    /\ ppc = "frame_check"
    /\ IF play_idx >= anim_count
         THEN /\ ppc' = "while_test"
              /\ UNCHANGED <<displayed, checked>>
         ELSE /\ Len(displayed) < MaxShown
              /\ displayed' = Append(displayed, play_idx)
              /\ checked' = play_idx
              /\ ppc' = "display"
    /\ UNCHANGED <<anim_count, play_opts, play_frames, animation_running, handler,
                   flag_writes, gen_idx, all_lines, all_line_counts, arrays,
                   frame_height, play_idx, first_iteration, cursor, echo, echo_state,
                   attrs_reset, ups, completed, cancel_at, written, play_ret>>
    /\ UNCHANGED outsidePlayer

\* The for loop's test and "Check running flag" at the top of its body.
\* The displays explored are capped at MaxShown.
PlayerFrameCheck ==
    /\ ppc = "frame_check"
    /\ IF play_idx >= anim_count \/ animation_running = 0
         THEN /\ ppc' = "while_test"
              /\ UNCHANGED <<displayed, checked>>
         ELSE /\ Len(displayed) < MaxShown
              /\ displayed' = Append(displayed, play_idx)
              /\ checked' = play_idx
              /\ ppc' = "display"
    /\ UNCHANGED <<anim_count, play_opts, play_frames, animation_running, handler,
                   flag_writes, gen_idx, all_lines, all_line_counts, arrays,
                   frame_height, play_idx, first_iteration, cursor, echo, echo_state,
                   attrs_reset, ups, completed, cancel_at, written, play_ret>>
    /\ UNCHANGED outsidePlayer

\* ansi_cursor_up's argument at this display: 0 where it is not called.
CursorUp ==
    IF first_iteration THEN 0
    ELSE frame_height + (IF play_opts.silent THEN 0 ELSE 1)

\* PlayerDisplay reading the flag once more after the lines are printed and
\* leaving the loop at once when it is cleared.
PlayerDisplayChecksFlag ==
    /\ ppc = "display"
    /\ ups' = Append(ups, CursorUp)
    /\ attrs_reset' = FALSE
    /\ ppc' = IF animation_running = 0 THEN "restore" ELSE "sleep"
    /\ UNCHANGED <<anim_count, play_opts, play_frames, animation_running, handler,
                   flag_writes, gen_idx, all_lines, all_line_counts, arrays,
                   frame_height, play_idx, first_iteration, cursor, echo, echo_state,
                   displayed, completed, checked, cancel_at, written, play_ret>>
    /\ UNCHANGED outsidePlayer

\* The cursor-up, the frame's lines, the control message and the fflush.
PlayerDisplay ==
    /\ ppc = "display"
    /\ ups' = Append(ups, CursorUp)
    /\ attrs_reset' = FALSE
    /\ ppc' = "sleep"
    /\ UNCHANGED <<anim_count, play_opts, play_frames, animation_running, handler,
                   flag_writes, gen_idx, all_lines, all_line_counts, arrays,
                   frame_height, play_idx, first_iteration, cursor, echo, echo_state,
                   displayed, completed, checked, cancel_at, written, play_ret>>
    /\ UNCHANGED outsidePlayer

\* PlayerSleep leaving first_iteration set.
PlayerSleepKeepsFirstIteration ==
    /\ ppc = "sleep"
    /\ completed' = completed + 1
    /\ play_idx' = play_idx + 1
    /\ ppc' = "frame_check"
    /\ UNCHANGED <<anim_count, play_opts, play_frames, animation_running, handler,
                   flag_writes, gen_idx, all_lines, all_line_counts, arrays,
                   frame_height, first_iteration, cursor, echo, echo_state, attrs_reset,
                   displayed, ups, checked, cancel_at, written, play_ret>>
    /\ UNCHANGED outsidePlayer

\* usleep, first_iteration = false and the for loop's frame_idx++.
PlayerSleep ==
    /\ ppc = "sleep"
    /\ first_iteration' = FALSE
    /\ completed' = completed + 1
    /\ play_idx' = play_idx + 1
    /\ ppc' = "frame_check"
    /\ UNCHANGED <<anim_count, play_opts, play_frames, animation_running, handler,
                   flag_writes, gen_idx, all_lines, all_line_counts, arrays,
                   frame_height, cursor, echo, echo_state, attrs_reset, displayed, ups,
                   checked, cancel_at, written, play_ret>>
    /\ UNCHANGED outsidePlayer

\* PlayerRestore without terminal_enable_echo.
PlayerRestoreKeepsEchoOff ==
    /\ ppc = "restore"
    /\ cursor' = "shown"
    /\ attrs_reset' = TRUE
    /\ all_lines' = [j \in 1..Len(all_lines) |-> "freed"]
    /\ arrays' = "freed"
    /\ play_ret' = "0"
    /\ ppc' = "returned"
    /\ UNCHANGED <<anim_count, play_opts, play_frames, animation_running, handler,
                   flag_writes, gen_idx, all_line_counts, frame_height, play_idx,
                   first_iteration, echo, echo_state, displayed, ups, completed, checked,
                   cancel_at, written>>
    /\ UNCHANGED outsidePlayer

\* "Show cursor, enable echo, reset", the cleanup and return 0.
\* terminal_enable_echo restores and frees the saved state, and does nothing
\* for NULL.
PlayerRestore ==
    /\ ppc = "restore"
    /\ cursor' = "shown"
    /\ echo' = IF echo_state = "saved" THEN "on" ELSE echo
    /\ echo_state' = IF echo_state = "saved" THEN "freed" ELSE echo_state
    /\ attrs_reset' = TRUE
    /\ all_lines' = [j \in 1..Len(all_lines) |-> "freed"]
    /\ arrays' = "freed"
    /\ play_ret' = "0"
    /\ ppc' = "returned"
    /\ UNCHANGED <<anim_count, play_opts, play_frames, animation_running, handler,
                   flag_writes, gen_idx, all_line_counts, frame_height, play_idx,
                   first_iteration, displayed, ups, completed, checked, cancel_at,
                   written>>
    /\ UNCHANGED outsidePlayer

\* ---------------------------------------------------- render_static_frame

\* render_static_frame up to the output loop: generate_frame_ansi on the
\* frame (NULL: return -1), then ansi_cursor_hide.
StaticGenerate ==
    /\ ppc = "static"
    /\ LET n == NumLines(play_frames[1].height)
       IN  \/ /\ n > 0
              /\ all_lines' = <<"live">>
              /\ all_line_counts' = <<n>>
              /\ cursor' = "hidden"
              /\ written' = 0
              /\ ppc' = "static_write"
              /\ UNCHANGED play_ret
           \/ /\ play_ret' = "-1"
              /\ ppc' = "static_returned"
              /\ UNCHANGED <<all_lines, all_line_counts, cursor, written>>
    /\ UNCHANGED <<anim_count, play_opts, play_frames, animation_running, handler,
                   flag_writes, gen_idx, arrays, frame_height, play_idx, first_iteration,
                   echo, echo_state, attrs_reset, displayed, ups, completed, checked,
                   cancel_at>>
    /\ UNCHANGED outsidePlayer

\* "Output lines to stdout": one write(), which returns -1 on failure and
\* makes render_static_frame return -1 at once; after the last line, "Show
\* cursor and reset", free_frame_lines and return 0.
StaticWrite ==
    /\ ppc = "static_write"
    /\ IF written < all_line_counts[1]
         THEN \/ /\ written' = written + 1
                 /\ attrs_reset' = FALSE
                 /\ UNCHANGED <<ppc, play_ret, cursor, all_lines>>
              \/ /\ play_ret' = "-1"
                 /\ ppc' = "static_returned"
                 /\ UNCHANGED <<written, attrs_reset, cursor, all_lines>>
         ELSE /\ cursor' = "shown"
              /\ attrs_reset' = TRUE
              /\ all_lines' = <<"freed">>
              /\ play_ret' = "0"
              /\ ppc' = "static_returned"
              /\ UNCHANGED written
    /\ UNCHANGED <<anim_count, play_opts, play_frames, animation_running, handler,
                   flag_writes, gen_idx, all_line_counts, arrays, frame_height, play_idx,
                   first_iteration, echo, echo_state, displayed, ups, completed, checked,
                   cancel_at>>
    /\ UNCHANGED outsidePlayer

\* pipeline_render's callees: render_animated with any frame count, or
\* render_static_frame with the first frame; the frames are pipeline_scale's.
PlayerInit ==
    /\ DecoderIdle
    /\ RendererIdle
    /\ ImageIdle
    /\ SmallPartsIdle
    /\ ppc \in {"start", "static"}
    /\ anim_count \in 0..MaxAnimFrames
    /\ ppc = "static" => anim_count = 1
    /\ play_opts \in [silent : BOOLEAN, fit_mode : BOOLEAN]
    /\ \E pages \in [1..anim_count -> PageSizes] :
         play_frames = ScaleEachFrame(pages, play_opts.fit_mode)
    /\ PlayerLocals

PlayerNext ==
    \/ Sigint
    \/ PlayerEnter
    \/ PlayerGenerate
    \/ PlayerHide
    \/ PlayerWhileTest
    \/ PlayerFrameCheck
    \/ PlayerDisplay
    \/ PlayerSleep
    \/ PlayerRestore
    \/ StaticGenerate
    \/ StaticWrite

PlayerSpec == PlayerInit /\ [][PlayerNext]_vars

\* The player's own steps: the process is scheduled, and neither a write to
\* the terminal nor usleep blocks for ever.
PlayerStep ==
    \/ PlayerEnter
    \/ PlayerGenerate
    \/ PlayerHide
    \/ PlayerWhileTest
    \/ PlayerFrameCheck
    \/ PlayerDisplay
    \/ PlayerSleep
    \/ PlayerRestore
    \/ StaticGenerate
    \/ StaticWrite

PlayerLiveSpec == PlayerSpec /\ WF_vars(PlayerStep)

\* ------------------------------------------------------------------ claims

\* The canvas positions (cx, cy).
CanvasCoords == (0..(CanvasW - 1)) \X (0..(CanvasH - 1))

\* The frame has been read and the loop body has not composited it yet.
BeforeComposite == pc \in {"backup", "read_image", "composite"}

\* The frame's pixels are on the accumulator and its disposal is still to come.
AfterComposite == pc \in {"clone", "dispose"}

\* The accumulator is the one left by the disposal step of frame number
\* frame_idx (counted from 1): the loop is between two frames, in the next
\* frame before its pixels are applied, or past its last frame.
HandedOver ==
    frame_idx >= 1 /\ pc \in {"frame_head", "backup", "read_image", "composite", "finish"}

\* C1: for a frame with disposal Previous, the backup holds the accumulator as
\* it was before the frame's pixels were applied (from the backup step until
\* the disposal step), and the accumulator handed to the next frame is equal
\* to the accumulator just before that frame was composited.
C1_PreviousRestoresPreFrameCanvas ==
    /\ (cur # NoFrame /\ cur.dispose_op = "Previous"
          /\ pc \in {"read_image", "composite", "clone", "dispose"})
         => /\ previous # NULL
            /\ Pixels(previous) = hist[Len(hist)].before
            /\ (pc \in {"read_image", "composite"}
                  => Pixels(accumulator) = hist[Len(hist)].before)
    /\ (HandedOver /\ hist[frame_idx].f.dispose_op = "Previous")
         => Pixels(accumulator) = hist[frame_idx].before

\* C1 witness: a Previous-disposal frame that changed a canvas already drawn
\* on has been disposed of.
C1_Witness ==
    /\ HandedOver
    /\ hist[frame_idx].f.dispose_op = "Previous"
    /\ hist[frame_idx].shown # hist[frame_idx].before
    /\ hist[frame_idx].before # BlankPixels(CanvasW, CanvasH)

\* C2: the accumulator presented to the frame after a Background-disposal
\* frame is (0,0,0,0) at every canvas pixel of that frame's region and equal
\* to the frame's composited output at every pixel outside it.
C2_BackgroundClearsExactlyRegion ==
    (HandedOver /\ hist[frame_idx].f.dispose_op = "Background")
      => \A c \in CanvasCoords :
           Pixels(accumulator)[PixelIndex(c[1], c[2], CanvasW)] =
             IF InRegion(hist[frame_idx].f, c[1], c[2])
               THEN <<0, 0, 0, 0>>
               ELSE hist[frame_idx].shown[PixelIndex(c[1], c[2], CanvasW)]

\* C2 witness: a Background frame over part of the canvas was disposed of;
\* it had drawn in its region and visible pixels remain outside it.
C2_Witness ==
    /\ HandedOver
    /\ hist[frame_idx].f.dispose_op = "Background"
    /\ \E c \in CanvasCoords :
         /\ InRegion(hist[frame_idx].f, c[1], c[2])
         /\ hist[frame_idx].shown[PixelIndex(c[1], c[2], CanvasW)] # <<0, 0, 0, 0>>
    /\ \E c \in CanvasCoords :
         /\ ~InRegion(hist[frame_idx].f, c[1], c[2])
         /\ Pixels(accumulator)[PixelIndex(c[1], c[2], CanvasW)] # <<0, 0, 0, 0>>

\* C3: a frame whose region does not fit entirely within the canvas makes the
\* decode fail with the bounds error, and none of its pixels is composited:
\* the loop body never goes past the frame head with such a frame.
C3_RegionOutOfBoundsFails ==
    (cur # NoFrame /\ ~RegionFits(cur))
      => /\ pc \in {"cleanup_error", "done"}
         /\ err = "bounds"
         /\ Pixels(accumulator) \in {NoPixels, hist[Len(hist)].before}

\* C4: when the decode has failed, nothing allocated for the batch is still
\* allocated: no image buffer (output frames, accumulator, backup), not the
\* frames array, not the per-frame temporaries, not the library handle.
C4_FailureReleasesEverything ==
    (pc = "done" /\ result = "null")
      => /\ \A i \in 1..Len(heap) : ~heap[i].live
         /\ frames_arr # "live"
         /\ row_pointers # "live"
         /\ frame_buffer # "live"
         /\ reader = "closed"

\* C5: a file declaring more frames than the format's cap is not refused for
\* it, and unless an allocation or the library fails, the decode returns
\* exactly cap frames, the first cap in source order, after a warning.
C5_OverCapTruncates ==
    (pc = "done" /\ declared > Cap(fmt))
      => /\ err # "frame_limit"
         /\ err = "none"
              => /\ result = "frames"
                 /\ frame_count = Cap(fmt)
                 /\ warned
                 /\ Len(frames) = Cap(fmt)
                 /\ \A i \in 1..Len(frames) : frames[i] # NULL /\ heap[frames[i]].live

\* C6: every output frame stored so far is a buffer of its own (not the
\* accumulator, not the backup, not another frame) and still holds the
\* accumulator's content as it was right after that frame's pixels were
\* applied, whatever later frames and disposals did to the accumulator
\* (until a failed decode destroys the whole batch).
C6_OutputFramesIndependent ==
    LET output == {i \in 1..Len(hist) : hist[i].shown # NoPixels}
    IN  result # "null"
          => /\ \A i \in output :
                  /\ frames[i] # NULL
                  /\ frames[i] \notin {accumulator, previous}
                  /\ heap[frames[i]].live
                  /\ heap[frames[i]].px = hist[i].shown
             /\ Cardinality({frames[i] : i \in output}) = Cardinality(output)

\* C6 witness: two frames were returned; after the first was output its
\* disposal and the second frame changed the accumulator.
C6_Witness ==
    /\ pc = "done"
    /\ result = "frames"
    /\ Len(hist) = 2
    /\ hist[1].after # hist[1].shown
    /\ hist[2].shown # hist[1].shown
    /\ hist[2].shown # hist[1].after

\* C7: on an opaque blue accumulator pixel, an opaque red source pixel with
\* Source gives pure red, and a red source pixel of alpha 128 with Over gives
\* (128, 0, 127, 255): half red, half blue, opaque.
C7_SourceAndOverOnBlue ==
    (pc = "clone" /\ cur.kind = "png")
      => \A c \in FrameCoords(cur.width, cur.height) :
           LET src == cur.pixels[PixelIndex(c[1], c[2], cur.width)]
               at == PixelIndex(cur.x_offset + c[1], cur.y_offset + c[2], CanvasW)
           IN  hist[Len(hist)].before[at] = Blue
                 => /\ (cur.blend_op = "Source" /\ src = Red)
                         => Pixels(accumulator)[at] = <<255, 0, 0, 255>>
                    /\ (cur.blend_op = "Over" /\ src = HalfRed)
                         => Pixels(accumulator)[at] = <<128, 0, 127, 255>>

\* C7 witness: a frame of alpha-128 red has just been composited with Over
\* onto an accumulator that was opaque blue in the frame's region.
C7_Witness ==
    /\ pc = "clone"
    /\ cur.kind = "png"
    /\ cur.blend_op = "Over"
    /\ \A c \in FrameCoords(cur.width, cur.height) :
         /\ cur.pixels[PixelIndex(c[1], c[2], cur.width)] = HalfRed
         /\ hist[Len(hist)].before[PixelIndex(cur.x_offset + c[1], cur.y_offset + c[2], CanvasW)] = Blue

\* C7 witness of the Source half: opaque red composited with Source onto blue.
C7_WitnessSource ==
    /\ pc = "clone"
    /\ cur.kind = "png"
    /\ cur.blend_op = "Source"
    /\ \A c \in FrameCoords(cur.width, cur.height) :
         /\ cur.pixels[PixelIndex(c[1], c[2], cur.width)] = Red
         /\ hist[Len(hist)].before[PixelIndex(cur.x_offset + c[1], cur.y_offset + c[2], CanvasW)] = Blue

\* C8: after an APNG frame is composited with Source, every pixel of its
\* region holds the four channels of the frame pixel mapped there by the
\* region offset, fully transparent frame pixels included.
C8_SourceReplacesRegion ==
    (pc = "clone" /\ cur.kind = "png" /\ cur.blend_op = "Source")
      => \A c \in FrameCoords(cur.width, cur.height) :
           Pixels(accumulator)[PixelIndex(cur.x_offset + c[1], cur.y_offset + c[2], CanvasW)]
             = cur.pixels[PixelIndex(c[1], c[2], cur.width)]

\* C8 witness: a Source frame with a fully transparent pixel has been
\* composited where the accumulator held a visible pixel.
C8_Witness ==
    /\ pc = "clone"
    /\ cur.kind = "png"
    /\ cur.blend_op = "Source"
    /\ \E c \in FrameCoords(cur.width, cur.height) :
         /\ cur.pixels[PixelIndex(c[1], c[2], cur.width)] = Transparent
         /\ hist[Len(hist)].before[PixelIndex(cur.x_offset + c[1], cur.y_offset + c[2], CanvasW)][4] = 255

\* C9: after a GIF frame is composited, every canvas pixel under a raster
\* pixel whose index is the frame's transparent index has the colour and the
\* alpha it had before the frame.
C9_GifTransparentIndexSkipped ==
    (pc = "clone" /\ cur.kind = "gif")
      => \A c \in FrameCoords(cur.width, cur.height) :
           (/\ cur.raster[PixelIndex(c[1], c[2], cur.width)] = cur.transparent_color
            /\ cur.x_offset + c[1] < CanvasW
            /\ cur.y_offset + c[2] < CanvasH)
             => LET at == PixelIndex(cur.x_offset + c[1], cur.y_offset + c[2], CanvasW)
                IN  Pixels(accumulator)[at] = hist[Len(hist)].before[at]

\* C9 witness: a GIF frame with a transparent-index pixel over a visible
\* canvas pixel has been composited, and the frame changed the canvas elsewhere.
C9_Witness ==
    /\ pc = "clone"
    /\ cur.kind = "gif"
    /\ Pixels(accumulator) # hist[Len(hist)].before
    /\ \E c \in FrameCoords(cur.width, cur.height) :
         /\ cur.raster[PixelIndex(c[1], c[2], cur.width)] = cur.transparent_color
         /\ cur.x_offset + c[1] < CanvasW
         /\ cur.y_offset + c[2] < CanvasH
         /\ hist[Len(hist)].before[PixelIndex(cur.x_offset + c[1], cur.y_offset + c[2], CanvasW)][4] = 255

\* Frame number i (from 2) follows a frame with disposal Previous, and its own
\* disposal step has run.
FollowsPrevious(i) ==
    /\ hist[i - 1].f.dispose_op = "Previous"
    /\ hist[i].after # NoPixels

\* C10 as stated: for frame A with disposal Previous followed by frame B, the
\* accumulator after B's disposal step equals the canvas before A was applied.
C10_AfterBEqualsBeforeA ==
    \A i \in 2..Len(hist) :
      FollowsPrevious(i) => hist[i].after = hist[i - 1].before

\* C10 amended: for frame A with disposal Previous followed by frame B, B is
\* composited onto the canvas as it was before A; after B's disposal step the
\* accumulator equals that canvas at every pixel outside B's region, equals it
\* everywhere when B's disposal is Previous too, and equals B's output frame
\* when B's disposal is None.
C10_PreviousRoundTrip ==
    \A i \in 2..Len(hist) :
      FollowsPrevious(i)
        => /\ hist[i].before = hist[i - 1].before
           /\ \A c \in CanvasCoords :
                ~InRegion(hist[i].f, c[1], c[2])
                  => hist[i].after[PixelIndex(c[1], c[2], CanvasW)]
                       = hist[i - 1].before[PixelIndex(c[1], c[2], CanvasW)]
           /\ hist[i].f.dispose_op = "Previous" => hist[i].after = hist[i - 1].before
           /\ hist[i].f.dispose_op = "None" => hist[i].after = hist[i].shown

\* C10 witness: A (Previous) changed the canvas and was undone; B has been
\* composited and disposed of.
C10_Witness ==
    /\ Len(hist) = 2
    /\ FollowsPrevious(2)
    /\ hist[1].shown # hist[1].before
    /\ hist[2].shown # hist[2].before

\* The RGBA pixel the frame carries at frame position (x, y).
FramePixel(f, x, y) ==
    IF f.kind = "gif"
      THEN gif_index_to_rgba(f.color_map, f.raster[PixelIndex(x, y, f.width)], f.transparent_color)
      ELSE f.pixels[PixelIndex(x, y, f.width)]

\* The frame pixel at (x, y) is opaque and drawn: not the GIF transparent
\* index, not a translucent APNG pixel to be blended.
DrawsOpaque(f, x, y) ==
    IF f.kind = "gif"
      THEN /\ f.raster[PixelIndex(x, y, f.width)] # f.transparent_color
           /\ FramePixel(f, x, y)[4] >= 128
      ELSE FramePixel(f, x, y)[4] = 255

\* C11: when two sequential frames both have disposal None, the second output
\* frame (examined as soon as it has been stored) is the first output frame with the second frame composited on it: at
\* every canvas pixel outside the second frame's region, and under every GIF
\* pixel the second frame does not draw, it holds the first output frame's
\* pixel; under every opaque pixel of the second frame it holds that pixel.
C11_DisposalNoneUnion ==
    LET i == Len(hist)
    IN  (/\ pc = "dispose"
         /\ i >= 2
         /\ hist[i - 1].f.dispose_op = "None"
         /\ hist[i].f.dispose_op = "None")
          => /\ hist[i].shown = Composited(hist[i - 1].shown, hist[i].f)
             /\ heap[frames[i]].px = hist[i].shown
             /\ \A c \in CanvasCoords :
                  LET f == hist[i].f
                      at == PixelIndex(c[1], c[2], CanvasW)
                      x == c[1] - f.x_offset
                      y == c[2] - f.y_offset
                  IN  IF ~InRegion(f, c[1], c[2])
                        THEN hist[i].shown[at] = hist[i - 1].shown[at]
                        ELSE /\ DrawsOpaque(f, x, y) => hist[i].shown[at] = FramePixel(f, x, y)
                             /\ (f.kind = "gif" /\ ~DrawsOpaque(f, x, y))
                                  => hist[i].shown[at] = hist[i - 1].shown[at]

\* C11 witness: two None frames were output; the second, over part of the
\* canvas, changed its region, and pixels the first frame drew remain visible
\* outside that region.
C11_Witness ==
    /\ pc = "dispose"
    /\ Len(hist) = 2
    /\ hist[1].f.dispose_op = "None"
    /\ hist[2].f.dispose_op = "None"
    /\ hist[2].shown # NoPixels
    /\ hist[2].shown # hist[1].shown
    /\ \E c \in CanvasCoords :
         /\ ~InRegion(hist[2].f, c[1], c[2])
         /\ hist[2].shown[PixelIndex(c[1], c[2], CanvasW)][4] = 255

\* The sequence a column of row pair (yt, yt + 1) must produce for its top
\* pixel and for its bottom pixel, spelled out from the escape codes.
BackgroundCode(p) == IF p[4] >= 128 THEN <<"bg_rgb", p[1], p[2], p[3]>> ELSE <<"bg_default">>
ForegroundGlyph(p) ==
    IF p[4] >= 128 THEN <<"fg_rgb_halfblock", p[1], p[2], p[3]>> ELSE <<"fg_default_space">>

\* The complete line of row pair (yt, yt + 1) of a canvas.
ExpectedLine(im, yt) ==
    [k \in 1..(2 * im.width + 1) |->
       IF k = 2 * im.width + 1 THEN <<"reset_newline">>
       ELSE IF k % 2 = 1 THEN BackgroundCode(ImgPixel(im, (k - 1) \div 2, yt))
       ELSE ForegroundGlyph(ImgPixel(im, (k - 1) \div 2, yt + 1))]

\* C12: a line generate_line_ansi returns holds, for the columns 0..width-1
\* in this order, the background code of the column's top pixel and then the
\* foreground code and glyph of its bottom pixel, and after the last column a
\* full attribute reset and a newline, and nothing else.
C12_LineOrder ==
    line_ret = "buffer"
      => /\ Len(line_buffer) = 2 * img.width + 1
         /\ \A c \in 0..(img.width - 1) :
              /\ line_buffer[2 * c + 1] = BackgroundCode(ImgPixel(img, c, y_top))
              /\ line_buffer[2 * c + 2] = ForegroundGlyph(ImgPixel(img, c, y_top + 1))
         /\ line_buffer[2 * img.width + 1] = <<"reset_newline">>

\* C12 witness: the second line of a frame whose columns differ was generated.
C12_Witness ==
    /\ mode = "frame"
    /\ line_ret = "buffer"
    /\ y_top = 2
    /\ img.width >= 2
    /\ img.pat = "edge"

\* C13: in whatever generate_line_ansi wrote for a column, a pixel of alpha
\* 127 got the transparent escape and a pixel of alpha 128 got the
\* true-colour escape of its channels; this for the top pixel (background)
\* and for the bottom pixel (foreground).
C13_AlphaThreshold ==
    line_ret = "buffer"
      => \A c \in 0..(img.width - 1) :
           LET top == ImgPixel(img, c, y_top)
               bottom == ImgPixel(img, c, y_top + 1)
           IN  /\ top[4] = 127 => line_buffer[2 * c + 1] = <<"bg_default">>
               /\ top[4] = 128 => line_buffer[2 * c + 1] = <<"bg_rgb", top[1], top[2], top[3]>>
               /\ bottom[4] = 127 => line_buffer[2 * c + 2] = <<"fg_default_space">>
               /\ bottom[4] = 128
                    => line_buffer[2 * c + 2] = <<"fg_rgb_halfblock", bottom[1], bottom[2], bottom[3]>>

\* C13 witness: a line was generated that has a column of alpha 127 over
\* alpha 128 and a column of alpha 128 over alpha 127.
C13_Witness ==
    /\ mode = "line"
    /\ line_ret = "buffer"
    /\ \E c \in 0..(img.width - 1) :
         ImgPixel(img, c, y_top)[4] = 127 /\ ImgPixel(img, c, y_top + 1)[4] = 128
    /\ \E c \in 0..(img.width - 1) :
         ImgPixel(img, c, y_top)[4] = 128 /\ ImgPixel(img, c, y_top + 1)[4] = 127

\* C14: when the sequence of a line does not fit the line buffer,
\* generate_line_ansi fails and nothing has been written to the buffer.
C14_OverflowWritesNothing ==
    fail = "overflow" => line_ret = "null" /\ line_buffer = <<>>

\* C15: no canvas that a run of the program hands to the renderer makes a
\* line overflow the MAX_LINE_BUFFER_SIZE buffer.
C15_LineBufferFitsEveryCanvas ==
    mode = "pipeline" => fail # "overflow"

\* C16: generate_line_ansi called with a row number that is odd, or that has
\* no row below it on the canvas, returns NULL without writing a line; called
\* with any other row number it is not refused.
C16_InvalidRow ==
    (mode = "line" /\ rpc # "line_enter")
      => /\ (y_top % 2 = 1 \/ y_top + 1 >= img.height) <=> fail = "invalid_row"
         /\ fail = "invalid_row" => line_ret = "null" /\ line_buffer = <<>>

\* C16 witness: an odd row number with a row below it was refused.
C16_Witness ==
    /\ mode = "line"
    /\ rpc = "done"
    /\ y_top % 2 = 1
    /\ y_top + 1 < img.height
    /\ fail = "invalid_row"

\* C17: generate_frame_ansi on a canvas of height h < 2 returns NULL with a
\* line count of 0; on a taller canvas, unless an allocation or a line fails,
\* it returns exactly h div 2 lines, line i being the line of rows 2i and
\* 2i + 1 (so the last row of an odd-height canvas appears in no line).
C17_RowPairing ==
    (mode \in {"frame", "pipeline"} /\ rpc = "done" /\ img # NoImage)
      => IF img.height < 2
           THEN frame_ret = "null" /\ line_count = 0 /\ fail = "empty"
           ELSE /\ fail # "empty"
                /\ fail = "none"
                     => /\ frame_ret = "lines"
                        /\ line_count = img.height \div 2
                        /\ Len(lines) = img.height \div 2
                        /\ \A i \in 1..Len(lines) :
                             lines[i] = ExpectedLine(img, 2 * (i - 1))

\* C17 witness: a canvas of odd height with at least two row pairs was
\* rendered.
C17_Witness ==
    /\ mode = "frame"
    /\ rpc = "done"
    /\ frame_ret = "lines"
    /\ img.height % 2 = 1
    /\ line_count >= 2
    /\ img.pat = "edge"

\* C18: image_create accepts the dimensions exactly when both are between 1
\* and 16384 and their product is at most 100,000,000 (the byte count is then
\* four times the product); it returns an image only for accepted dimensions,
\* and NULL for every other pair, among them 0 x N, 16385 x 10, 10000 x 10001
\* and UINT32_MAX x UINT32_MAX. Accepted dimensions fail only if memory
\* cannot be allocated.
C18_CreationLimits ==
    ipc = "done"
      => LET inRange(v) == v[1] = 0 /\ 1 <= v[2] /\ v[2] <= 16384
             valid == /\ inRange(req_width)
                      /\ inRange(req_height)
                      /\ req_width[2] * req_height[2] <= 100000000
         IN  /\ valid <=> byte_count # -1
             /\ valid => byte_count = 4 * req_width[2] * req_height[2]
             /\ ~valid => created = "null"
             /\ created \in {"image", "null"}

\* C18 witness: the largest accepted pixel count, 10000 x 10000, was created.
C18_Witness ==
    /\ ipc = "done"
    /\ req_width = <<0, 10000>>
    /\ req_height = <<0, 10000>>
    /\ created = "image"

\* C19: render_animated returns with the cursor shown and the input echo on;
\* if it had hidden the cursor and tried to disable echo, the saved terminal
\* state has been restored and released and the attributes have been reset.
\* Between hiding and restoring, the cursor is hidden and the player has not
\* returned.
C19_TerminalRestored ==
    /\ ppc = "returned"
         => /\ cursor = "shown"
            /\ echo = "on"
            /\ echo_state # "saved"
            /\ echo_state # "none" => attrs_reset
    /\ ppc \in {"while_test", "frame_check", "display", "sleep", "restore"}
         => cursor = "hidden" /\ play_ret = "none"

\* C19 witness: cancellation came before any frame was shown, the echo had
\* been switched off, and the player has returned.
C19_Witness ==
    /\ ppc = "returned"
    /\ echo_state = "freed"
    /\ displayed = <<>>
    /\ animation_running = 0

\* C20: the k-th frame display is of frame (k - 1) mod frame_count; the
\* player is past its loop only with the flag cleared; a frame is displayed
\* only after the flag was read as set at the start of that frame's display;
\* and every display that began ran to its end before the loop was left.
C20_OrderAndCancellation ==
    /\ \A k \in 1..Len(displayed) : displayed[k] = (k - 1) % anim_count
    /\ (ppc = "restore" \/ (ppc = "returned" /\ echo_state # "none"))
         => animation_running = 0 /\ completed = Len(displayed)
    /\ ppc \in {"display", "sleep"}
         => checked = play_idx /\ displayed[Len(displayed)] = play_idx

\* C20 witness: the animation went round more than once and was then
\* cancelled.
C20_Witness ==
    /\ ppc = "returned"
    /\ play_ret = "0"
    /\ anim_count >= 2
    /\ Len(displayed) > anim_count

\* The lines a display of frame f prints: its own line count, plus one when
\* the status line "Press Ctrl+C to exit" is shown.
StatusLines == IF play_opts.silent THEN 0 ELSE 1

\* C21: the first display overall is not preceded by a cursor-up; every
\* later display is preceded by a cursor-up of the frame height in lines (the
\* line count of the first frame), plus one if the status line is shown.
C21_CursorUpBeforeRedraw ==
    \A k \in 1..Len(ups) :
        ups[k] = IF k = 1 THEN 0 ELSE all_line_counts[1] + StatusLines

\* C21 witness: a second display has printed, with the status line shown.
C21_Witness ==
    /\ Len(ups) >= 2
    /\ ~play_opts.silent
    /\ ppc = "sleep"

\* C22: in a 3-frame animation where SIGINT arrives before the first frame's
\* delay is over (no display or only the first had begun), at most one frame
\* is displayed in total, and the player goes on to return 0 with the cursor
\* shown and the echo on; it returns -1, the terminal untouched, if the
\* pre-generation fails.
C22_ImmediateCancellation ==
    /\ [](anim_count = 3 /\ cancel_at \in {0, 1}
            => /\ Len(displayed) <= 1
               /\ ppc = "returned" => cursor = "shown" /\ echo = "on")
    /\ (anim_count = 3 /\ cancel_at \in {0, 1}) ~> (ppc = "returned")

\* C22 witness: SIGINT arrived during the first frame of three, and the
\* player has returned after cleaning up.
C22_Witness ==
    /\ anim_count = 3
    /\ cancel_at = 1
    /\ displayed = <<0>>
    /\ ppc = "returned"
    /\ play_ret = "0"
    /\ echo_state = "freed"

\* C23: when generate_frame_ansi fails for a frame during the
\* pre-generation, render_animated returns -1 with the cursor never hidden,
\* the echo never touched, nothing displayed, and the lines of every frame
\* generated before the failure released together with the two arrays; the
\* playback loop is entered only with the lines of every frame generated.
C23_PreRenderFailure ==
    /\ (ppc = "returned" /\ play_ret = "-1" /\ arrays = "freed")
         => /\ cursor = "shown"
            /\ echo_state = "none"
            /\ echo = "on"
            /\ displayed = <<>>
            /\ ups = <<>>
            /\ \A j \in 1..Len(all_lines) : all_lines[j] = "freed"
    /\ ppc \in {"hide", "while_test", "frame_check", "display", "sleep"}
         => /\ Len(all_lines) = anim_count
            /\ \A j \in 1..anim_count :
                 all_lines[j] = "live" /\ NumLines(play_frames[j].height) > 0

\* C23 witness: the second frame of an animation has no row pair, its
\* generation failed after the first frame's lines had been generated, and
\* the player has returned.
C23_Witness ==
    /\ ppc = "returned"
    /\ play_ret = "-1"
    /\ Len(all_lines) = 1
    /\ NumLines(play_frames[2].height) = 0
    /\ all_lines[1] = "freed"

\* C24: every store to the cancellation flag animation_running is made by
\* the signal handler; the player never stores to it.
C24_FlagWrittenOnlyByHandler == flag_writes \subseteq {"signal_handler"}

\* C25: in every line generate_line_ansi returns, for every column whose top
\* pixel is opaque, the terminal's background colour when the column's
\* character (half block or space) is drawn is the top pixel's (r, g, b),
\* whatever the bottom pixel's alpha.
C25_TopColourBehindGlyph ==
    line_ret = "buffer"
      => \A c \in 0..(img.width - 1) :
           LET top == ImgPixel(img, c, y_top)
           IN  top[4] >= 128
                 => BackgroundAt(line_buffer, 2 * c + 2) = <<top[1], top[2], top[3]>>

\* C26: the cursor-up before every redraw is by the number of lines the
\* previously displayed frame printed: that frame's own line count, plus one
\* if the status line is shown.
C26_CursorUpMatchesPrinted ==
    \A k \in 2..Len(ups) :
        ups[k] = all_line_counts[displayed[k - 1] + 1] + StatusLines

\* C27: whenever render_static_frame has returned after hiding the cursor
\* (its lines were generated), the cursor is shown again, the attributes
\* have been reset and the frame's lines have been released, also when a
\* write failed part-way.
C27_StaticPrinterRestores ==
    (ppc = "static_returned" /\ all_lines # <<>>)
      => /\ cursor = "shown"
         /\ attrs_reset
         /\ all_lines = <<"freed">>

\* C28: in the Over blend with out_alpha > 0, the channel value computed
\* before the narrowing to 8 bits lies in 0..255, and so does out_alpha.
C28_OverChannelInRange ==
    (bpc = "done" /\ over_out.out_a > 0)
      => /\ over_out.wide \in 0..255
         /\ over_out.out_a \in 0..255

\* The frame's declared region lies inside the canvas, in unbounded
\* arithmetic.
RegionInsideCanvas(f) ==
    /\ ~Carries32(f.x_offset, f.width)
    /\ ~Carries32(f.y_offset, f.height)
    /\ ~Greater32(Add32(f.x_offset, f.width), canvas_width)
    /\ ~Greater32(Add32(f.y_offset, f.height), canvas_height)

\* The canvas position is one of the frame's declared region, in unbounded
\* arithmetic.
InDeclaredRegion(f, c) ==
    /\ f.x_offset[1] = 0 /\ f.x_offset[2] <= c[1] /\ c[1] < f.x_offset[2] + f.width[2]
    /\ f.y_offset[1] = 0 /\ f.y_offset[2] <= c[2] /\ c[2] < f.y_offset[2] + f.height[2]

C30_FramesLiveAndFreedOnce ==
    /\ faults = {}
    /\ mpc = "render"
         => /\ scaled_arr = "live"
            /\ \A i \in 1..scaled_count : scaled_frames[i] = "live"
    /\ mpc = "exit"
         => /\ scaled_arr = "freed"
            /\ \A i \in 1..scaled_count : scaled_frames[i] = "freed"

====
